---- MODULE Spec2Model ----
(***************************************************************************)
(* Workflow orchestration of the website generator: the LangGraph state    *)
(* graph (intent routing, creation pipeline, validate/repair loop), the    *)
(* retrying text-generation operations with credential rotation, and the   *)
(* generateWebsite driver with its module-level callbacks.                 *)
(***************************************************************************)
EXTENDS Integers, Sequences, FiniteSets, TLC

(* ------------------------------ bounds -------------------------------- *)
\* largest credential pool explored (the code filters up to 11 env keys)
MaxPool == 2
\* longest errors list a validation pass reports
MaxErrors == 1
\* largest iterationCount a direct graph invocation starts with
MaxInitIter == 3
\* cap on iterationCount explored (guards the repair stage)
MaxIterCap == 7
\* leading slashes of a path in a PATCH request, and updates per request
MaxSlashes == 2
MaxUpdates == 2

(* ------------------------- program constants -------------------------- *)
\* const maxRetries = 3 in every retry loop
maxRetries == 3
\* state.iterationCount >= 3 in the validation edge
MaxIterations == 3

Invocations == {"A", "B"}
Modules == {"IntentRouter", "Blueprint", "ModificationAnalyzer", "UIService"}

\* workloads the environment drives in one behaviour:
\*   workflow  one request on a fresh process, every input
\*   requests  consecutive requests on one process (the credential indexes
\*             carry over), one prompt, stages that report no error
\*   stream    two consecutive generateWebsite calls with optional callbacks
\*             (A, then B once A has ended), on a process with one credential
\*   overlap   two generateWebsite calls in flight at once (B is called while
\*             A is awaiting its graph), both with callbacks, on a process
\*             with one credential whose completion calls do not throw
\*   ui        calls of UIService.selectComponents, one at a time
\*   shared    two calls of UIService.selectComponents in flight at once
\*   modify    one POST /api/projects/:projectId/modify on a stored project
\*   patch     PATCH /api/projects/:projectId/files requests on a stored project
Workloads == {"workflow", "requests", "stream", "overlap", "ui", "shared", "modify", "patch"}
WorkloadInvocations(w) ==
  CASE w \in {"workflow", "requests"} -> {"A"}
    [] w \in {"stream", "overlap"} -> {"A", "B"}
    [] OTHER -> {}
\* invocations of the compiled graph on a caller-built state
GraphCallers(w) == IF w \in {"workflow", "requests"} THEN {"A"} ELSE {}
PoolSizesFor(w) ==
  CASE w = "stream" -> {1}
    [] w = "overlap" -> {1}
    [] w = "shared" -> {MaxPool}
    [] w \in {"modify", "patch"} -> {1}
    [] OTHER -> 0..MaxPool
\* POST /chat/langgraph passes no callbacks to generateWebsite
CallbackArgs(w) ==
  CASE w \in {"workflow", "requests"} -> {FALSE}
    [] w = "overlap" -> {TRUE}
    [] OTHER -> BOOLEAN
Callers == {"U1", "U2"}
WorkloadCallers(w) ==
  CASE w = "ui" -> {"U1"}
    [] w = "shared" -> {"U1", "U2"}
    [] OTHER -> {}

(* ------------------------------ inputs -------------------------------- *)
AppPath == "src/App.tsx"
PagePath == "src/pages/GalleryPage.tsx"
NavbarPath == "src/components/layout/Navbar.tsx"
\* a second file named Navbar.tsx, in another directory
UiNavbarPath == "src/components/ui/Navbar.tsx"
Paths == {AppPath, PagePath, NavbarPath}
ErrorIds == {"missing import", "syntax"}

\* prompts as token sequences; "Add" exercises toLowerCase
Prompts == { <<"a", "bakery", "site">>,
             <<"Add", "gallery", "page">>,
             <<"where is", "the", "navbar">>,
             <<"explain", "and", "fix", "navbar">> }

Range(s) == {s[k] : k \in 1..Len(s)}

\* String.prototype.toLowerCase on one token
ToLowerToken(t) == IF t = "Add" THEN "add" ELSE t
ToLowerCase(p) == [k \in 1..Len(p) |-> ToLowerToken(p[k])]

\* userPrompt.includes(kw), on the token abstraction
Includes(p, kw) == kw \in Range(p)

MODIFY_KEYWORDS == {"add", "change", "update", "modify", "edit", "remove", "delete",
                    "fix", "improve", "enhance", "create new", "add new", "include",
                    "put", "place", "insert", "make", "build"}
QUESTION_KEYWORDS == {"where is", "where are", "where can i find", "how do i",
                      "what is", "what are", "which", "explain", "show me",
                      "tell me", "describe", "help me understand", "can you explain"}

HasModifyKeywords(p) == \E kw \in MODIFY_KEYWORDS : Includes(ToLowerCase(p), kw)
HasQuestionKeywords(p) == \E kw \in QUESTION_KEYWORDS : Includes(ToLowerCase(p), kw)

Intents == {"create", "modify", "question", "explain"}
\* raw completions of the classifier
RawAnswers == {"create", "modify", "question", "explain", " Explain", "maybe", ""}
\* content?.toLowerCase().trim()
LowerTrim(a) == IF a = " Explain" THEN "explain" ELSE a

SeqsUpTo(S, n) == UNION {[1..k -> S] : k \in 0..n}

File(p, c) == [path |-> p, content |-> c]
\* files the stages of a graph run produce: one path, two contents
AllFiles == {File(AppPath, "v1"), File(AppPath, "v2")}
\* a stage's files update: nothing, or one produced file
FileUpdates == SeqsUpTo(AllFiles, 1)
\* a pass reports each finding once, in a fixed order, at most MaxErrors of them
ErrorLists == { e \in SeqsUpTo(ErrorIds, MaxErrors) :
                  \A k \in 1..(Len(e) - 1) : e[k] = "missing import" /\ e[k + 1] = "syntax" }

NullBlueprint == [isNull |-> TRUE]
Page(n, r) == [name |-> n, route |-> r]
\* variant: the initial state starts the iteration count at 1
InitialStateCountsFromOne(prompt) ==
  [ userPrompt |-> prompt,
    requestIntent |-> "unset",
    isModification |-> FALSE,
    blueprint |-> [isNull |-> TRUE],
    files |-> <<>>,
    errors |-> <<>>,
    iterationCount |-> 1,
    currentPhase |-> "init",
    messages |-> <<>>,
    chatResponse |-> "none",
    modificationPlan |-> [summary |-> "none", changes |-> <<>>],
    filesToCreate |-> <<>>,
    filesToModify |-> <<>> ]

\* variant: the fallback holds the home page only
FallbackPagesHomeOnly == <<Page("HomePage", "/")>>

\* the minimal fallback returned after the loop of extractPagesWithLLM
FallbackPages == <<Page("HomePage", "/"), Page("NotFoundPage", "*")>>
LLMPageSets == { <<Page("HomePage", "/"), Page("Cakes Page", "/cakes"), Page("NotFoundPage", "*")>> }
Blueprint(pages) == [isNull |-> FALSE, pages |-> pages]

\* inputs of a workload
PromptsFor(w) == IF w = "workflow" THEN Prompts ELSE { <<"Add", "gallery", "page">> }
\* a stage that writes App.tsx, a page, and App.tsx again
RewritingUpdate == <<File(AppPath, "v1"), File(PagePath, "v1"), File(AppPath, "v2")>>
FileUpdatesFor(w) ==
  CASE w = "workflow" -> FileUpdates
    [] w = "stream" -> { <<File(AppPath, "v2")>>, RewritingUpdate }
    [] OTHER -> { <<File(AppPath, "v2")>> }
ErrorListsFor(w) == IF w = "workflow" THEN ErrorLists ELSE { <<>> }

NoPlan == [summary |-> "none", changes |-> <<>>]
Change(f, a) == [file |-> f, action |-> a]
\* plans the analysis model answers with
LLMPlans == { [summary |-> "llm", changes |-> <<>>],
              [summary |-> "llm", changes |-> <<Change(PagePath, "create"), Change(AppPath, "modify"),
                                                Change(NavbarPath, "delete")>>] }

\* files of the stored project a modify request works on
StoredFiles == <<File(AppPath, "v1"), File(NavbarPath, "v1")>>
\* an entry of the service's plan: { path, action, reason }
Modification(p, a) == [path |-> p, action |-> a]
\* plans analyzeModificationRequest returns (filesToModify)
ServicePlans ==
  { <<>>,
    <<Modification(PagePath, "create"), Modification(AppPath, "modify")>>,
    <<Modification("Navbar.tsx", "modify"), Modification(AppPath, "delete")>>,
    <<Modification(UiNavbarPath, "create")>> }
\* what generateNewFile / modifyExistingFile return for an entry
Generated == {"v1", "v3", "null"}

\* a path string seen from its front: the number of leading '/' characters
\* and the rest, which does not start with '/'
SlashPath(n, rest) == [slashes |-> n, rest |-> rest]
\* paths a PATCH request names: one file, written with 0..MaxSlashes leading slashes
PatchPaths == {SlashPath(n, AppPath) : n \in 0..MaxSlashes}
\* req.body.files of a PATCH request: every update of a request carries a
\* content of its own
PatchContents == <<"u1", "u2", "u3", "u4">>
PatchBodies ==
  { [k \in 1..Len(ps) |-> File(ps[k], PatchContents[k])] :
      ps \in SeqsUpTo(PatchPaths, MaxUpdates) \ {<<>>} }
\* stored files of the project a PATCH sequence starts from: paths saved
\* without a leading slash, with one, and both for the same file
PatchStored ==
  { <<File(SlashPath(0, AppPath), "v1"), File(SlashPath(1, NavbarPath), "v1")>>,
    <<File(SlashPath(1, AppPath), "v1")>>,
    <<File(SlashPath(0, NavbarPath), "v1")>>,
    <<File(SlashPath(0, AppPath), "v1"), File(SlashPath(1, AppPath), "v1")>> }

(* ------------------------- workflow state ----------------------------- *)
\* variant: the initial state carries the files of an earlier run
InitialStateWithFiles(prompt) ==
  [ userPrompt |-> prompt,
    requestIntent |-> "unset",
    isModification |-> FALSE,
    blueprint |-> [isNull |-> TRUE],
    files |-> <<[path |-> "src/App.tsx", content |-> "v1"]>>,
    errors |-> <<>>,
    iterationCount |-> 0,
    currentPhase |-> "init",
    messages |-> <<>>,
    chatResponse |-> "none",
    modificationPlan |-> [summary |-> "none", changes |-> <<>>],
    filesToCreate |-> <<>>,
    filesToModify |-> <<>> ]

\* initial state built by generateWebsite
InitialState(prompt) ==
  [ userPrompt |-> prompt,
    requestIntent |-> "unset",
    isModification |-> FALSE,
    blueprint |-> NullBlueprint,
    files |-> <<>>,
    errors |-> <<>>,
    iterationCount |-> 0,
    currentPhase |-> "init",
    messages |-> <<>>,
    chatResponse |-> "none",
    modificationPlan |-> NoPlan,
    filesToCreate |-> <<>>,
    filesToModify |-> <<>> ]

PathsOf(files) == {files[k].path : k \in 1..Len(files)}

\* variant: an update of a path is appended as a new entry
UpsertAppends(files, f) == Append(files, f)

\* upsert of one file into the ordered path-keyed map
Upsert(files, f) ==
  IF f.path \in PathsOf(files)
  THEN [k \in 1..Len(files) |-> IF files[k].path = f.path THEN f ELSE files[k]]
  ELSE Append(files, f)

RECURSIVE UpsertAll(_, _)
UpsertAll(files, upd) ==
  IF upd = <<>> THEN files
  ELSE UpsertAll(Upsert(files, Head(upd)), Tail(upd))

\* variant: the errors channel accumulates like the messages channel
ReducerErrorsAccumulate(field, old, new) ==
  CASE field = "files" -> UpsertAll(old, new)
    [] field \in {"messages", "errors"} -> old \o new
    [] OTHER -> new

\* per-channel reducer of the state annotation
Reducer(field, old, new) ==
  CASE field = "files" -> UpsertAll(old, new)
    [] field = "messages" -> old \o new
    [] OTHER -> new

\* variant: a field the update does not hold falls back to its default
MergeDefaultsAbsent(s, u) ==
  [f \in DOMAIN s |-> IF f \in DOMAIN u THEN Reducer(f, s[f], u[f])
                                         ELSE InitialState(s.userPrompt)[f]]

\* merge of a stage's partial update into the state
Merge(s, u) ==
  [f \in DOMAIN s |-> IF f \in DOMAIN u THEN Reducer(f, s[f], u[f]) ELSE s[f]]

(* ------------------------------ edges --------------------------------- *)
\* variant: the 'explain' case label is missing from the switch
IntentEdgeNoExplain(s) ==
  CASE s.requestIntent = "question" -> "chat_response"
    [] s.requestIntent = "modify" -> "modification_analyzer"
    [] OTHER -> "blueprint_step"

\* conditional edge after intent_router
IntentEdge(s) ==
  CASE s.requestIntent \in {"question", "explain"} -> "chat_response"
    [] s.requestIntent = "modify" -> "modification_analyzer"
    [] OTHER -> "blueprint_step"

\* variant: the iteration test is > instead of >=
ValidationEdgeOffByOne(s) ==
  IF Len(s.errors) = 0 THEN "END"
  ELSE IF s.iterationCount > MaxIterations THEN "END"
  ELSE "repair_step"

\* variant: the iteration test is missing
ValidationEdgeNoCap(s) ==
  IF Len(s.errors) = 0 THEN "END" ELSE "repair_step"

\* variant: the empty-errors test is missing
ValidationEdgeCapOnly(s) ==
  IF s.iterationCount >= MaxIterations THEN "END" ELSE "repair_step"

\* conditional edge after validation_step
ValidationEdge(s) ==
  IF Len(s.errors) = 0 THEN "END"
  ELSE IF s.iterationCount >= MaxIterations THEN "END"
  ELSE "repair_step"

\* variant: the graph is entered at the creation pipeline
EntryPointBlueprint == "blueprint_step"

\* addEdge('__start__', 'intent_router')
EntryPoint == "intent_router"

\* variant: the analyzer is wired to validation, bypassing repair
StaticEdgeAnalyzerToValidation(node) ==
  CASE node = "chat_response" -> "END"
    [] node = "modification_analyzer" -> "validation_step"
    [] node = "blueprint_step" -> "structure_step"
    [] node = "structure_step" -> "core_step"
    [] node = "core_step" -> "components_step"
    [] node = "components_step" -> "pages_step"
    [] node = "pages_step" -> "validation_step"
    [] node = "repair_step" -> "validation_step"

\* variant: structure is wired to components, bypassing core
StaticEdgeSkipsCore(node) ==
  CASE node = "chat_response" -> "END"
    [] node = "modification_analyzer" -> "repair_step"
    [] node = "blueprint_step" -> "structure_step"
    [] node = "structure_step" -> "components_step"
    [] node = "core_step" -> "components_step"
    [] node = "components_step" -> "pages_step"
    [] node = "pages_step" -> "validation_step"
    [] node = "repair_step" -> "validation_step"

\* variant: repair is wired to END
StaticEdgeRepairToEnd(node) ==
  CASE node = "chat_response" -> "END"
    [] node = "modification_analyzer" -> "repair_step"
    [] node = "blueprint_step" -> "structure_step"
    [] node = "structure_step" -> "core_step"
    [] node = "core_step" -> "components_step"
    [] node = "components_step" -> "pages_step"
    [] node = "pages_step" -> "validation_step"
    [] node = "repair_step" -> "END"

\* unconditional edges
StaticEdge(node) ==
  CASE node = "chat_response" -> "END"
    [] node = "modification_analyzer" -> "repair_step"
    [] node = "blueprint_step" -> "structure_step"
    [] node = "structure_step" -> "core_step"
    [] node = "core_step" -> "components_step"
    [] node = "components_step" -> "pages_step"
    [] node = "pages_step" -> "validation_step"
    [] node = "repair_step" -> "validation_step"

\* next node once `node` has returned and its update is merged into s
NextNode(node, s) ==
  CASE node = "intent_router" -> IntentEdge(s)
    [] node = "validation_step" -> ValidationEdge(s)
    [] OTHER -> StaticEdge(node)

(* ------------------------ credential rotation ------------------------- *)
\* variant: the rotation leaves the index where it is
RotateApiKeyStuck(idx, n) == idx

\* variant: the rotation does not wrap around
RotateApiKeyNoWrap(idx, n) == IF n > 1 THEN idx + 1 ELSE idx

\* rotateApiKey / rotateBlueprintKey over a pool of n credentials
RotateApiKey(idx, n) == IF n > 1 THEN (idx + 1) % n ELSE idx

\* variant: the loop test is < instead of <=
LoopContinuesShort(attempt) == attempt < maxRetries

\* for (attempt = 1; attempt <= maxRetries; attempt++)
LoopContinues(attempt) == attempt <= maxRetries
\* if (attempt < maxRetries) { wait; continue; }
RetryAgain(attempt) == attempt < maxRetries

(* ------------------------------- delays ------------------------------- *)
\* setTimeout(r, 1000 * attempt): intent router, page-set extraction, analysis
RetryDelay(attempt) == 1000 * attempt
\* UIService on a rate-limit or quota error: 2000 + (attempt * 1000)
RateLimitDelay(attempt) == 2000 + (attempt * 1000)
\* UIService on any other error: setTimeout(resolve, 1000)
OtherErrorDelay(attempt) == 1000
\* no setTimeout on the path taken
NoDelay == 0

\* history entry of one failed attempt: its class, whether the credential
\* was rotated after it, and the delay waited after it
Failure(class, rotated, wait) == [class |-> class, rotated |-> rotated, wait |-> wait]


(* ------------------------------ state --------------------------------- *)
VARIABLES
  workload,            \* entry points the environment drives in this behaviour
  poolSize,            \* apiKeys.length after filtering the environment
  currentKeyIndex,     \* per module: currentKeyIndex / blueprintKeyIndex
  globalFileCallback,  \* invocation whose file callback is registered, or "null"
  globalPhaseCallback, \* invocation whose phase callback is registered, or "null"
  run,                 \* per invocation: position in the graph and workflow state
  selectionCache,      \* UIService: cacheKey -> cached selection
  ui,                  \* per caller: position in UIService.selectComponents
  project              \* the stored project of a modify request and the request's position

vars == <<workload, poolSize, currentKeyIndex, globalFileCallback, globalPhaseCallback,
          run, selectionCache, ui, project>>

graphVars == <<globalFileCallback, globalPhaseCallback, run>>
uiVars == <<selectionCache, ui>>

IdleRun ==
  [ pc |-> "idle",
    entry |-> "none",
    st |-> InitialState(<<>>),
    attempt |-> 0,
    calls |-> 0,
    outcome |-> "none",
    rotations |-> 0,
    idx0 |-> 0,
    fails |-> <<>>,
    got |-> "none",
    trace |-> <<>>,
    routed |-> "none",
    lastErrs |-> <<>>,
    files0 |-> <<>>,
    iter0 |-> 0,
    ret |-> <<>>,
    err |-> "none",
    args |-> [onFile |-> FALSE, onPhase |-> FALSE],
    notified |-> <<>>,
    issued |-> <<>>,
    over |-> {},
    mem |-> "none",
    events |-> [file |-> <<>>, terminal |-> <<>>, last |-> "none"] ]

IdleCall ==
  [ pc |-> "idle", cacheKey |-> "", attempt |-> 0, calls |-> 0, rotations |-> 0,
    idx0 |-> 0, fails |-> <<>>, outcome |-> "none", result |-> "none", cred |-> 0 ]

\* the project as Project.findById returns it, before the request is handled
IdleProject ==
  [ pc |-> "idle", files |-> StoredFiles, files0 |-> StoredFiles,
    plan |-> <<>>, modifiedFiles |-> <<>>, updates |-> <<>> ]
ProjectsFor(w) ==
  IF w = "patch"
  THEN {[IdleProject EXCEPT !.files = fs, !.files0 = fs] : fs \in PatchStored}
  ELSE {IdleProject}

Init ==
  /\ workload \in Workloads
  /\ poolSize \in PoolSizesFor(workload)
  /\ currentKeyIndex = [m \in Modules |-> 0]
  /\ globalFileCallback = "null"
  /\ globalPhaseCallback = "null"
  /\ run = [i \in Invocations |-> IdleRun]
  /\ selectionCache = <<>>
  /\ ui = [c \in Callers |-> IdleCall]
  /\ project \in ProjectsFor(workload)

\* the invocation has ended: its promise is settled
Stopped(r) ==
  \/ r.pc \in {"returned", "threw"}
  \/ r.entry = "invoke" /\ r.pc \in {"END", "failed"}

\* a generateWebsite invocation that has started and not ended
Running(r) ==
  r.entry = "generateWebsite" /\ r.pc \notin {"idle", "released", "returned", "threw"}

RetryingNodes == {"intent_router", "blueprint_step", "modification_analyzer"}

\* a retrying operation starts with the credential index at idx: its
\* bookkeeping starts from zero
OpStart(r, idx) ==
  [r EXCEPT !.calls = 0, !.outcome = "none", !.rotations = 0,
            !.idx0 = idx, !.fails = <<>>, !.got = "none"]

\* calls, outcome, rotations, idx0, fails and got describe the retrying
\* operation of the stage that executed last; a stage without one clears them
Bookkeeping(r, node) ==
  IF node \in RetryingNodes THEN r ELSE OpStart(r, 0)

\* the node returned update u: merge it, then evaluate the outgoing edge
Finished(r, node, u) ==
  LET s2 == Merge(r.st, u) IN
  [Bookkeeping(r, node) EXCEPT !.st = s2, !.pc = NextNode(node, s2),
                               !.trace = Append(@, node), !.attempt = 0,
                               !.notified = <<>>, !.issued = <<>>]

\* the node threw: the graph run aborts with that error and its state is dropped
Thrown(r, node) ==
  [Bookkeeping(r, node) EXCEPT !.pc = "failed", !.st = IdleRun.st,
                               !.trace = Append(@, node), !.attempt = 0,
                               !.err = "stage failed", !.notified = <<>>,
                               !.issued = <<>>]

Rotated(m) == [currentKeyIndex EXCEPT ![m] = RotateApiKey(@, poolSize)]

(* ------------------------- notification channel ---------------------- *)
\* a call of a callback: which one, the invocation that supplied it, its argument
Call(cb, owner, arg) == [cb |-> cb, owner |-> owner, arg |-> arg]

\* variant: the registration of the file callback is dropped
SetFileCallbackDropped(cb) == "null"

\* setFileCallback(cb) / setPhaseCallback(cb): the new value of the global
SetFileCallback(cb) == cb
SetPhaseCallback(cb) == cb

\* onFileGenerated || null, for the callback invocation i may supply
OrNull(supplied, i) == IF supplied THEN i ELSE "null"

\* variant: the null test is missing
NotifyFileCreatedUnguarded(file, fileCb, phaseCb) == <<Call("file", fileCb, file)>>

\* variant: the callback is invoked twice for a notification
NotifyFileCreatedTwice(file, fileCb, phaseCb) ==
  IF fileCb # "null"
  THEN <<Call("file", fileCb, file), Call("file", fileCb, file)>>
  ELSE <<>>

\* notifyFileCreated(file): the callback calls it makes
NotifyFileCreated(file, fileCb, phaseCb) ==
  IF fileCb # "null" THEN <<Call("file", fileCb, file)>> ELSE <<>>

\* variant: the phase notification tests the file callback
NotifyPhaseChangeWrongGuard(phase, fileCb, phaseCb) ==
  IF fileCb # "null" THEN <<Call("phase", phaseCb, phase)>> ELSE <<>>

\* notifyPhaseChange(phase): the callback calls it makes
NotifyPhaseChange(phase, fileCb, phaseCb) ==
  IF phaseCb # "null" THEN <<Call("phase", phaseCb, phase)>> ELSE <<>>

RECURSIVE NotifyFiles(_, _, _)
\* one notifyFileCreated per produced file, in order
NotifyFiles(files, fileCb, phaseCb) ==
  IF files = <<>> THEN <<>>
  ELSE NotifyFileCreated(Head(files), fileCb, phaseCb)
       \o NotifyFiles(Tail(files), fileCb, phaseCb)

\* variant: the finally block leaves the callback registered
FinallyCallbackKept(cb) == cb

\* finally { setFileCallback(null); setPhaseCallback(null) }
FinallyCallback(cb) == "null"

(* ---------------- POST /chat/langgraph-stream: the listener ----------- *)
\* what sendEvent has written to a response: the 'file' events in order (path
\* and content), the 'complete' and 'error' events in order, and the type of
\* the event written last; message texts and the phase carried by an event
\* are left out
NoEvents == [file |-> <<>>, terminal |-> <<>>, last |-> "none"]
\* the response after the initial message
Opened == [NoEvents EXCEPT !.last = "message"]
\* sentFiles: every add is followed by the 'file' event of the path
SentFiles(events) == {events.file[k].path : k \in 1..Len(events.file)}

\* variant: the file callback sends every notification
OnFileGeneratedNoSet(events, file) ==
  [events EXCEPT !.file = Append(@, [path |-> file.path, content |-> file.content]),
                 !.last = "file"]

\* the file callback of the endpoint
OnFileGenerated(events, file) ==
  IF file.path \notin SentFiles(events)
  THEN [events EXCEPT !.file = Append(@, [path |-> file.path, content |-> file.content]),
                      !.last = "file"]
  ELSE events

\* the phase callback of the endpoint
OnPhaseChange(events, phase) == [events EXCEPT !.last = "phase"]

\* variant: the catch block ends the response without an event
TerminalEventCompleteOnly(events, pc) ==
  IF pc = "returned"
  THEN [events EXCEPT !.terminal = Append(@, "complete"), !.last = "complete"]
  ELSE events

\* after the await: sendEvent('complete') in the try block, sendEvent('error')
\* in the catch block, each followed by res.end()
TerminalEvent(events, pc) ==
  IF pc = "returned"
  THEN [events EXCEPT !.terminal = Append(@, "complete"), !.last = "complete"]
  ELSE [events EXCEPT !.terminal = Append(@, "error"), !.last = "error"]

\* the request is one of the streaming endpoint: it supplies both callbacks
Streaming(args) == args.onFile /\ args.onPhase

RECURSIVE Delivered(_, _)
\* the callbacks run: each call of a callback supplied by a streaming request
\* writes to that request's response
Delivered(rn, calls) ==
  IF calls = <<>> THEN rn
  ELSE
    LET c == Head(calls)
        rn2 == IF c.owner \in Invocations /\ Streaming(rn[c.owner].args)
               THEN [rn EXCEPT ![c.owner].events =
                       IF c.cb = "file" THEN OnFileGenerated(@, c.arg)
                       ELSE OnPhaseChange(@, c.arg)]
               ELSE rn
    IN Delivered(rn2, Tail(calls))

\* the run records after invocation i made the callback calls of its step
AfterCalls(rn, i) == Delivered(rn, rn[i].notified)

(* --------------------------- generateWebsite -------------------------- *)
\* the caller of the stream workload awaits A before it calls B; in the
\* overlap workload B is called while A is in progress
MayStart(i) ==
  /\ workload = "stream" =>
        \/ i = "A" /\ run["B"].pc = "idle"
        \/ i = "B" /\ run["A"].pc = "released"
  /\ workload = "overlap" =>
        \/ i = "A" /\ run["B"].pc = "idle"
        \/ i = "B" /\ Running(run["A"])

\* generateWebsite up to websiteGraph.invoke(initialState)
GenerateWebsite(i) ==
  /\ i \in WorkloadInvocations(workload)
  /\ run[i].pc = "idle"
  /\ MayStart(i)
  /\ \E prompt \in PromptsFor(workload), onFile \in CallbackArgs(workload), onPhase \in CallbackArgs(workload) :
       /\ globalFileCallback' = SetFileCallback(OrNull(onFile, i))
       /\ globalPhaseCallback' = SetPhaseCallback(OrNull(onPhase, i))
       /\ run' = [run EXCEPT ![i] =
                    [IdleRun EXCEPT !.pc = EntryPoint,
                                    !.entry = "generateWebsite",
                                    !.st = InitialState(prompt),
                                    !.args = [onFile |-> onFile, onPhase |-> onPhase],
                                    !.events = IF onFile /\ onPhase THEN Opened ELSE NoEvents,
                                    !.over = {j \in Invocations \ {i} : Running(run[j])}]]
  /\ UNCHANGED <<workload, poolSize, currentKeyIndex, uiVars, project>>

\* states of an existing project handed to the compiled graph:
\* files without a blueprint, a blueprint without files, both (fresh or
\* carried over from a run that used up its repairs)
Existing(fs, bp, it) == [files |-> fs, blueprint |-> bp, iterationCount |-> it]
ExistingProjects ==
  { Existing(<<File(AppPath, "v1")>>, NullBlueprint, 0),
    Existing(<<>>, Blueprint(FallbackPages), 0),
    Existing(<<File(AppPath, "v1")>>, Blueprint(FallbackPages), 0),
    Existing(<<File(AppPath, "v1")>>, Blueprint(FallbackPages), MaxInitIter) }
ExistingProjectsFor(w) ==
  IF w = "workflow" THEN ExistingProjects
  ELSE { Existing(<<File(AppPath, "v1")>>, Blueprint(FallbackPages), 0) }

\* websiteGraph.invoke on a caller-built state (existing project)
InvokeGraph(i) ==
  /\ i \in GraphCallers(workload)
  /\ run[i].pc = "idle"
  /\ \E prompt \in PromptsFor(workload), ex \in ExistingProjectsFor(workload) :
       run' = [run EXCEPT ![i] =
                 [IdleRun EXCEPT !.pc = EntryPoint,
                                 !.entry = "invoke",
                                 !.st = [InitialState(prompt) EXCEPT
                                           !.files = ex.files,
                                           !.blueprint = ex.blueprint,
                                           !.iterationCount = ex.iterationCount],
                                 !.files0 = ex.files,
                                 !.iter0 = ex.iterationCount]]
  /\ UNCHANGED <<workload, poolSize, currentKeyIndex, globalFileCallback, globalPhaseCallback, uiVars, project>>

\* variant: a resolved call always reports no errors
GenerateWebsiteResultNoErrors(s) ==
  [files |-> s.files, errors |-> <<>>, messages |-> s.messages]

\* the value generateWebsite resolves with
GenerateWebsiteResult(s) ==
  [files |-> s.files, errors |-> s.errors, messages |-> s.messages]

\* return { files, errors, messages } and the finally block
GenerateWebsiteReturn(i) ==
  /\ run[i].entry = "generateWebsite"
  /\ run[i].pc = "END"
  /\ run' = [run EXCEPT ![i].pc = "returned",
                        ![i].ret = <<GenerateWebsiteResult(run[i].st)>>]
  /\ globalFileCallback' = SetFileCallback(FinallyCallback(globalFileCallback))
  /\ globalPhaseCallback' = SetPhaseCallback(FinallyCallback(globalPhaseCallback))
  /\ UNCHANGED <<workload, poolSize, currentKeyIndex, uiVars, project>>

\* variant: the catch block returns what it has instead of rethrowing
RethrowSwallowed(r) ==
  [r EXCEPT !.pc = "returned", !.ret = <<GenerateWebsiteResult(r.st)>>, !.err = "none"]

\* catch (error) { throw error }: the promise is rejected with the graph's error
Rethrow(r) == [r EXCEPT !.pc = "threw"]

\* catch (rethrow) and the finally block
GenerateWebsiteThrow(i) ==
  /\ run[i].entry = "generateWebsite"
  /\ run[i].pc = "failed"
  /\ run' = [run EXCEPT ![i] = Rethrow(run[i])]
  /\ globalFileCallback' = SetFileCallback(FinallyCallback(globalFileCallback))
  /\ globalPhaseCallback' = SetPhaseCallback(FinallyCallback(globalPhaseCallback))
  /\ UNCHANGED <<workload, poolSize, currentKeyIndex, uiVars, project>>

\* the caller is done with a settled invocation; the next request may come
Release(i) ==
  /\ workload # "workflow"
  /\ Stopped(run[i])
  /\ run' = [run EXCEPT ![i] =
               IF workload \in {"stream", "overlap"}
               THEN [IdleRun EXCEPT !.pc = "released", !.args = run[i].args,
                                    !.over = run[i].over,
                                    !.events = IF Streaming(run[i].args)
                                               THEN TerminalEvent(run[i].events, run[i].pc)
                                               ELSE NoEvents]
               ELSE IdleRun]
  /\ UNCHANGED <<workload, poolSize, currentKeyIndex, globalFileCallback, globalPhaseCallback, uiVars, project>>

(* ----------------------------- intent router -------------------------- *)
HasExistingFiles(s) == Len(s.files) > 0
HasBlueprint(s) == s.blueprint # NullBlueprint

\* variant: the keyword check comes before the existing-project check
NoExistingProjectUnlessKeywords(s) ==
  ~HasExistingFiles(s) /\ ~HasBlueprint(s) /\ ~HasModifyKeywords(s.userPrompt)

\* if (!hasExistingFiles && !hasBlueprint)
NoExistingProject(s) == ~HasExistingFiles(s) /\ ~HasBlueprint(s)

IntentUpdate(intent) == [requestIntent |-> intent, isModification |-> (intent = "modify")]

\* history: the intent the routing stage returned
Routed(r) == [r EXCEPT !.routed = r.st.requestIntent]

\* intentRouterNode up to its first await
IntentRouterEnter(i) ==
  LET r == run[i] IN
  /\ r.pc = "intent_router"
  /\ r.attempt = 0
  /\ IF NoExistingProject(r.st)
     THEN run' = [run EXCEPT ![i] =
                    Routed(Finished([r EXCEPT !.outcome = "skipped"],
                                    "intent_router", IntentUpdate("create")))]
     ELSE run' = [run EXCEPT ![i] =
                    [OpStart(r, currentKeyIndex["IntentRouter"]) EXCEPT !.attempt = 1]]
  /\ UNCHANGED <<workload, poolSize, currentKeyIndex, globalFileCallback, globalPhaseCallback, uiVars, project>>

\* intent chosen from a classifier completion
ClassifiedIntent(raw, prompt) ==
  LET lowered == LowerTrim(raw)
      intentRaw == IF lowered = "" THEN "modify" ELSE lowered
  IN IF intentRaw \in Intents THEN intentRaw
     ELSE IF HasQuestionKeywords(prompt) THEN "question" ELSE "modify"

\* variant: the modify keywords are tested before the question keywords
CatchFallbackIntentModifyFirst(s) ==
  IF ~HasExistingFiles(s) THEN "create"
  ELSE IF HasModifyKeywords(s.userPrompt) THEN "modify"
  ELSE IF HasQuestionKeywords(s.userPrompt) THEN "question"
  ELSE "modify"

\* keyword fallback in the catch block of the last attempt
CatchFallbackIntent(s) ==
  IF ~HasExistingFiles(s) THEN "create"
  ELSE IF HasQuestionKeywords(s.userPrompt) THEN "question"
  ELSE IF HasModifyKeywords(s.userPrompt) THEN "modify"
  ELSE "modify"

\* fallback after the loop
FinalFallbackIntent(s) ==
  IF HasQuestionKeywords(s.userPrompt) THEN "question" ELSE "modify"

FailureClasses == {"transient", "other"}
\* errors the completion calls of a workload throw
FailureClassesFor(w) ==
  CASE w = "overlap" -> {}
    [] w = "shared" -> {"transient"}
    [] OTHER -> FailureClasses

\* one pass of the retry loop of intentRouterNode
IntentRouterAttempt(i) ==
  LET r == run[i]
      r1 == [r EXCEPT !.calls = @ + 1] IN
  /\ r.pc = "intent_router"
  /\ r.attempt >= 1
  /\ \/ \E raw \in RawAnswers :
          /\ run' = [run EXCEPT ![i] =
                       Routed(Finished([r1 EXCEPT !.outcome = "ok", !.got = raw], "intent_router",
                                       IntentUpdate(ClassifiedIntent(raw, r.st.userPrompt))))]
          /\ UNCHANGED currentKeyIndex
     \/ \E class \in FailureClassesFor(workload) :
          /\ currentKeyIndex' = Rotated("IntentRouter")
          /\ LET wait == IF RetryAgain(r.attempt) THEN RetryDelay(r.attempt) ELSE NoDelay
                 r2 == [r1 EXCEPT !.rotations = @ + 1,
                                  !.fails = Append(@, Failure(class, TRUE, wait))] IN
             IF RetryAgain(r.attempt)
             THEN IF LoopContinues(r.attempt + 1)
                  THEN run' = [run EXCEPT ![i] = [r2 EXCEPT !.attempt = r.attempt + 1]]
                  ELSE run' = [run EXCEPT ![i] =
                                 Routed(Finished([r2 EXCEPT !.outcome = "exhausted"],
                                                 "intent_router",
                                                 IntentUpdate(FinalFallbackIntent(r.st))))]
             ELSE run' = [run EXCEPT ![i] =
                            Routed(Finished([r2 EXCEPT !.outcome = "exhausted"],
                                            "intent_router",
                                            IntentUpdate(CatchFallbackIntent(r.st))))]
  /\ UNCHANGED <<workload, poolSize, globalFileCallback, globalPhaseCallback, uiVars, project>>


(* ------------------------------ blueprint ----------------------------- *)
BlueprintMessages == <<"planning complete", "theme", "pages determined",
                       "features identified", "images ready">>

\* page.name.replace(/\s+/g, '')
StripSpaces(name) == IF name = "Cakes Page" THEN "CakesPage" ELSE name
ValidNames(pages) == [k \in 1..Len(pages) |-> Page(StripSpaces(pages[k].name), pages[k].route)]

BlueprintUpdate(pages) ==
  [ blueprint |-> Blueprint(ValidNames(pages)),
    currentPhase |-> "blueprint",
    messages |-> BlueprintMessages ]

\* blueprintNode after extractPagesWithLLM returned `pages`:
\* it returns its update, or throws (page mapping, memory store)
BlueprintRest(r, pages) ==
  { Finished(r, "blueprint_step", BlueprintUpdate(pages)),
    Thrown(r, "blueprint_step") }

\* planningResponse.error || 'Planning failed', or what generateBlueprint threw
PlanningErrors == {"Planning failed", "planning service down"}

\* PlanningService.generateBlueprint inside blueprintNode
BlueprintPlanning(i) ==
  LET r == run[i] IN
  /\ r.pc = "blueprint_step"
  /\ r.attempt = 0
  /\ \/ run' = [run EXCEPT ![i] =
                    [OpStart(r, currentKeyIndex["Blueprint"]) EXCEPT !.attempt = 1]]
     \/ \E e \in PlanningErrors :
          run' = [run EXCEPT ![i] =
                    [Thrown(OpStart(r, 0), "blueprint_step") EXCEPT !.err = e]]
  /\ UNCHANGED <<workload, poolSize, currentKeyIndex, globalFileCallback, globalPhaseCallback, uiVars, project>>

\* one pass of the retry loop of extractPagesWithLLM
ExtractPagesAttempt(i) ==
  LET r == run[i]
      r1 == [r EXCEPT !.calls = @ + 1]
      \* attempt++ and the loop test; the fallback pages after the loop
      After(rr) ==
        IF LoopContinues(r.attempt + 1)
        THEN { [rr EXCEPT !.attempt = r.attempt + 1] }
        ELSE BlueprintRest([rr EXCEPT !.outcome = "exhausted", !.got = FallbackPages],
                           FallbackPages)
  IN
  /\ r.pc = "blueprint_step"
  /\ r.attempt >= 1
  /\ \/ \E pages \in LLMPageSets :
          /\ run' \in { [run EXCEPT ![i] = x] :
                          x \in BlueprintRest([r1 EXCEPT !.outcome = "ok", !.got = pages], pages) }
          /\ UNCHANGED currentKeyIndex
     \/ \* the response holds no JSON array: no catch, the loop goes on
        /\ run' \in { [run EXCEPT ![i] = x] :
                        x \in After([r1 EXCEPT !.fails =
                                        Append(@, Failure("nojson", FALSE, NoDelay))]) }
        /\ UNCHANGED currentKeyIndex
     \/ \E class \in FailureClassesFor(workload) :
          /\ currentKeyIndex' = Rotated("Blueprint")
          /\ LET wait == IF RetryAgain(r.attempt) THEN RetryDelay(r.attempt) ELSE NoDelay IN
             run' \in { [run EXCEPT ![i] = x] :
                          x \in After([r1 EXCEPT !.rotations = @ + 1,
                                                 !.fails = Append(@, Failure(class, TRUE, wait))]) }
  /\ UNCHANGED <<workload, poolSize, globalFileCallback, globalPhaseCallback, uiVars, project>>

(* ------------------------ modification analyzer ----------------------- *)
RECURSIVE SelectFiles(_, _)
\* variant: every change that is not a create counts as a modify
SelectFilesRestAsModify(changes, action) ==
  LET Picked(c) == IF action = "modify" THEN c.action # "create" ELSE c.action = action
      picked == SelectSeq(changes, Picked)
  IN [k \in 1..Len(picked) |-> picked[k].file]

\* plan.changes.filter(c => c.action === action).map(c => c.file)
SelectFiles(changes, action) ==
  IF changes = <<>> THEN <<>>
  ELSE IF Head(changes).action = action
       THEN <<Head(changes).file>> \o SelectFiles(Tail(changes), action)
       ELSE SelectFiles(Tail(changes), action)

PlanUpdate(plan) ==
  [ modificationPlan |-> plan,
    filesToCreate |-> SelectFiles(plan.changes, "create"),
    filesToModify |-> SelectFiles(plan.changes, "modify"),
    messages |-> <<"analyzed request", "files will be affected">> ]

\* `src/pages/${pageName}Page.tsx` for the captured word
PageFileFor(word) == IF word = "gallery" THEN PagePath ELSE "src/pages/OtherPage.tsx"

\* /add.*?(\w+)\s*page/i : an "add", later a "page" with a word before it
AddPageMatches(p) ==
  { <<a, b>> \in (1..Len(p)) \X (1..Len(p)) :
      /\ ToLowerToken(p[a]) = "add" /\ ToLowerToken(p[b]) = "page" /\ b >= a + 2 }

\* p.toLowerCase().includes(word) && p.includes('/pages/') on the known paths
PathMentions(path, word) == path = PagePath /\ word = "gallery"

\* variant: the Navbar is listed without looking at the files map
NavbarToModifyUnchecked(s) == <<NavbarPath>>

\* if (state.files.has('src/components/layout/Navbar.tsx')) filesToModify.push(...)
NavbarToModify(s) == IF NavbarPath \in PathsOf(s.files) THEN <<NavbarPath>> ELSE <<>>

\* the regex-based plan built after the retries are exhausted
FallbackUpdate(s) ==
  LET p == s.userPrompt
      lower == ToLowerCase(p)
      addPage == Includes(lower, "add") /\ Includes(lower, "page") /\ AddPageMatches(p) # {}
      m == CHOOSE ab \in AddPageMatches(p) :
             \A cd \in AddPageMatches(p) : ab[1] <= cd[1] /\ (ab[1] = cd[1] => ab[2] <= cd[2])
      create == IF addPage THEN <<PageFileFor(ToLowerToken(p[m[2] - 1]))>> ELSE <<>>
      modify1 == IF addPage
                 THEN <<AppPath>> \o NavbarToModify(s)
                 ELSE <<>>
      addSection == Includes(lower, "add") /\ (Includes(lower, "section") \/ Includes(lower, "component"))
      targets == { k \in 1..(Len(p) - 1) : ToLowerToken(p[k]) \in {"to", "in", "on"} }
      k0 == CHOOSE k \in targets : \A k2 \in targets : k <= k2
      word == IF k0 + 2 <= Len(p) /\ ToLowerToken(p[k0 + 1]) = "the"
              THEN ToLowerToken(p[k0 + 2]) ELSE ToLowerToken(p[k0 + 1])
      hits == IF addSection /\ targets # {}
              THEN { k \in 1..Len(s.files) : PathMentions(s.files[k].path, word) }
              ELSE {}
      modify2 == IF hits # {}
                 THEN <<s.files[CHOOSE k \in hits : \A k2 \in hits : k <= k2].path>>
                 ELSE <<>>
      modify == modify1 \o modify2
  IN
  [ modificationPlan |->
      [ summary |-> "Fallback modification plan",
        changes |-> [k \in 1..Len(create) |-> Change(create[k], "create")]
                    \o [k \in 1..Len(modify) |-> Change(modify[k], "modify")] ],
    filesToCreate |-> create,
    filesToModify |-> modify,
    messages |-> <<"detected files to change">> ]

AnalysisFailures == {"transient", "other", "nojson"}

\* one pass of the retry loop of modificationAnalyzerNode
ModificationAnalyzerAttempt(i) ==
  LET r == run[i]
      attempt == IF r.attempt = 0 THEN 1 ELSE r.attempt
      r0 == IF r.attempt = 0 THEN OpStart(r, currentKeyIndex["ModificationAnalyzer"]) ELSE r
      r1 == [r0 EXCEPT !.calls = @ + 1] IN
  /\ r.pc = "modification_analyzer"
  /\ \/ \E plan \in LLMPlans :
          /\ run' = [run EXCEPT ![i] =
                       Finished([r1 EXCEPT !.outcome = "ok", !.got = plan],
                                "modification_analyzer", PlanUpdate(plan))]
          /\ UNCHANGED currentKeyIndex
     \/ \E class \in AnalysisFailures :
          /\ currentKeyIndex' = Rotated("ModificationAnalyzer")
          /\ LET wait == IF RetryAgain(attempt) THEN RetryDelay(attempt) ELSE NoDelay
                 r2 == [r1 EXCEPT !.rotations = @ + 1,
                                  !.fails = Append(@, Failure(class, TRUE, wait))] IN
             IF LoopContinues(attempt + 1)
             THEN run' = [run EXCEPT ![i] = [r2 EXCEPT !.attempt = attempt + 1]]
             ELSE run' = [run EXCEPT ![i] =
                            Finished([r2 EXCEPT !.outcome = "exhausted"],
                                     "modification_analyzer", FallbackUpdate(r.st))]
  /\ UNCHANGED <<workload, poolSize, globalFileCallback, globalPhaseCallback, uiVars, project>>

(* ----------------------------- chat response -------------------------- *)
\* the fallback text assembled in the catch block
FallbackResponse(s) ==
  IF Len(s.files) > 0
  THEN IF HasBlueprint(s) THEN "error; files; project" ELSE "error; files"
  ELSE "error"

\* outcomes of retrieveContext and of the completion call
MemoryLookups == {"memories", "nothing", "throws"}
ChatAnswers == {"the navbar is in src/App.tsx", "", "throws"}

\* variant: the catch block of the generation call rethrows
ChatResponseNodeRethrows(r, mem, answer) ==
  IF answer = "throws"
  THEN [Thrown(r, "chat_response") EXCEPT !.calls = 1, !.mem = mem]
  ELSE LET text == IF answer = "" THEN "I couldn't find information" ELSE answer
       IN [Finished(r, "chat_response", [chatResponse |-> text, messages |-> <<text>>])
             EXCEPT !.calls = 1, !.mem = mem, !.got = answer, !.outcome = "answered"]

\* chatResponseNode for a memory lookup and a completion call that end as
\* given: the run record after the stage
ChatResponseNode(r, mem, answer) ==
  LET text == IF answer = "throws" THEN FallbackResponse(r.st)
              ELSE IF answer = "" THEN "I couldn't find information"
              ELSE answer
  IN [Finished(r, "chat_response", [chatResponse |-> text, messages |-> <<text>>])
        EXCEPT !.calls = 1, !.mem = mem, !.got = answer,
               !.outcome = IF answer = "throws" THEN "fallback" ELSE "answered"]

\* chatResponseNode: one lookup, one generation call, no retry
ChatResponse(i) ==
  LET r == run[i] IN
  /\ r.pc = "chat_response"
  /\ \E mem \in MemoryLookups, answer \in ChatAnswers :
       run' = [run EXCEPT ![i] = ChatResponseNode(r, mem, answer)]
  /\ UNCHANGED <<workload, poolSize, currentKeyIndex, globalFileCallback, globalPhaseCallback, uiVars, project>>


(* ------------- stages whose source is not in the repository dump ------- *)
GeneratingStages == {"structure_step", "core_step", "components_step", "pages_step"}
PhaseOf(node) ==
  CASE node = "structure_step" -> "structure"
    [] node = "core_step" -> "core"
    [] node = "components_step" -> "components"
    [] node = "pages_step" -> "pages"

\* the callback calls of a stage: its phase, then each file it produced
StageNotifications(phase, files) ==
  NotifyPhaseChange(phase, globalFileCallback, globalPhaseCallback)
  \o NotifyFiles(files, globalFileCallback, globalPhaseCallback)

\* structureNode, coreNode, componentNode, pageNode: produce files, or throw
GeneratingStage(i) ==
  LET r == run[i] IN
  /\ r.pc \in GeneratingStages
  /\ \/ \E fu \in FileUpdatesFor(workload) :
          run' = AfterCalls([run EXCEPT ![i] =
                    [Finished(r, r.pc, [files |-> fu, currentPhase |-> PhaseOf(r.pc)])
                       EXCEPT !.notified = StageNotifications(PhaseOf(r.pc), fu),
                              !.issued = fu]], i)
     \/ run' = AfterCalls([run EXCEPT ![i] =
                  [Thrown(r, r.pc) EXCEPT !.notified = StageNotifications(PhaseOf(r.pc), <<>>)]], i)
  /\ UNCHANGED <<workload, poolSize, currentKeyIndex, globalFileCallback, globalPhaseCallback, uiVars, project>>

\* validationNode: re-derives the complete errors list, or throws
ValidationStep(i) ==
  LET r == run[i] IN
  /\ r.pc = "validation_step"
  /\ \/ \E errs \in ErrorListsFor(workload) :
          run' = AfterCalls([run EXCEPT ![i] =
                    [Finished([r EXCEPT !.lastErrs = errs], "validation_step",
                              [errors |-> errs, currentPhase |-> "validation"])
                       EXCEPT !.notified = StageNotifications("validation", <<>>)]], i)
     \/ run' = AfterCalls([run EXCEPT ![i] =
                  [Thrown(r, "validation_step")
                     EXCEPT !.notified = StageNotifications("validation", <<>>)]], i)
  /\ UNCHANGED <<workload, poolSize, currentKeyIndex, globalFileCallback, globalPhaseCallback, uiVars, project>>

\* repairNode: rewrites files and adds 1 to iterationCount, or throws
RepairStep(i) ==
  LET r == run[i] IN
  /\ r.pc = "repair_step"
  /\ r.st.iterationCount < MaxIterCap
  /\ \/ \E fu \in FileUpdatesFor(workload) :
          run' = AfterCalls([run EXCEPT ![i] =
                    [Finished(r, "repair_step",
                              [files |-> fu,
                               iterationCount |-> r.st.iterationCount + 1,
                               currentPhase |-> "repair"])
                       EXCEPT !.notified = StageNotifications("repair", fu),
                              !.issued = fu]], i)
     \/ run' = AfterCalls([run EXCEPT ![i] =
                  [Thrown(r, "repair_step")
                     EXCEPT !.notified = StageNotifications("repair", <<>>)]], i)
  /\ UNCHANGED <<workload, poolSize, currentKeyIndex, globalFileCallback, globalPhaseCallback, uiVars, project>>

(* ------------------------------ UIService ----------------------------- *)
Requirements == {"bakery site", " bakery site ", "portfolio"}
RequirementsFor(w) == IF w = "shared" THEN {"bakery site", "portfolio"} ELSE Requirements
\* requirements.trim()
Trim(req) == IF req = " bakery site " THEN "bakery site" ELSE req
Selections == {"cards+aurora", "text+gallery"}
EmptySelection == "empty"

\* selectComponents up to its first await: the cache lookup
SelectComponents(c) ==
  /\ c \in WorkloadCallers(workload)
  /\ ui[c].pc \in {"idle", "done"}
  /\ workload = "shared" => ui[c].pc = "idle"
  /\ \E req \in RequirementsFor(workload) :
       LET key == Trim(req) IN
       IF key \in DOMAIN selectionCache
       THEN ui' = [ui EXCEPT ![c] = [IdleCall EXCEPT !.pc = "done", !.cacheKey = key,
                                                    !.outcome = "cached",
                                                    !.result = selectionCache[key]]]
       ELSE ui' = [ui EXCEPT ![c] = [IdleCall EXCEPT !.pc = "attempting", !.cacheKey = key,
                                                    !.attempt = 1,
                                                    !.idx0 = currentKeyIndex["UIService"]]]
  /\ UNCHANGED <<workload, poolSize, currentKeyIndex, graphVars, selectionCache, project>>

\* one pass of the retry loop of selectComponents
SelectComponentsAttempt(c) ==
  LET u == ui[c]
      \* getClient() reads the index when the attempt starts
      u1 == [u EXCEPT !.calls = @ + 1, !.cred = currentKeyIndex["UIService"]] IN
  /\ u.pc = "attempting"
  /\ \/ \E sel \in Selections :
          /\ selectionCache' = [k \in DOMAIN selectionCache \cup {u.cacheKey} |->
                                  IF k = u.cacheKey THEN sel ELSE selectionCache[k]]
          /\ ui' = [ui EXCEPT ![c] = [u1 EXCEPT !.pc = "done", !.outcome = "ok", !.result = sel]]
          /\ UNCHANGED currentKeyIndex
     \/ \E class \in FailureClassesFor(workload) :
          /\ currentKeyIndex' = Rotated("UIService")
          /\ LET wait == IF class = "transient" THEN RateLimitDelay(u.attempt)
                         ELSE OtherErrorDelay(u.attempt)
                 u2 == [u1 EXCEPT !.rotations = @ + 1,
                                  !.fails = Append(@, Failure(class, TRUE, wait))] IN
             IF LoopContinues(u.attempt + 1)
             THEN ui' = [ui EXCEPT ![c] = [u2 EXCEPT !.attempt = u.attempt + 1]]
             ELSE ui' = [ui EXCEPT ![c] = [u2 EXCEPT !.pc = "done", !.outcome = "exhausted",
                                                     !.result = EmptySelection]]
          /\ UNCHANGED selectionCache
  /\ UNCHANGED <<workload, poolSize, graphVars, project>>

(* ------------------------ modification service ----------------------- *)
\* modified.path.split('/').pop()
Basename(p) ==
  CASE p = AppPath -> "App.tsx"
    [] p = NavbarPath -> "Navbar.tsx"
    [] p = UiNavbarPath -> "Navbar.tsx"
    [] p = PagePath -> "GalleryPage.tsx"
    [] OTHER -> p

\* p.endsWith(q) on the paths and file names above
EndsWith(p, q) == p = q \/ Basename(p) = q

\* files.find / findIndex: the first index whose file satisfies the test, 0 if none
FirstIndex(hits) == IF hits = {} THEN 0 ELSE CHOOSE k \in hits : \A k2 \in hits : k <= k2

ModifiedFile(p, c, a) == [path |-> p, content |-> c, action |-> a]

RECURSIVE ApplyModifications(_, _, _)
\* applyModifications(request, plan, files): the modifiedFiles it returns,
\* outs[k] being what the generation call of entry k answers
ApplyModifications(plan, files, outs) ==
  IF plan = <<>> THEN <<>>
  ELSE
    LET m == Head(plan)
        o == Head(outs)
        ix == FirstIndex({k \in 1..Len(files) :
                           files[k].path = m.path \/ EndsWith(files[k].path, m.path)})
        here ==
          CASE m.action = "create" ->
                 IF o # "null" THEN <<ModifiedFile(m.path, o, "created")>> ELSE <<>>
            [] m.action = "modify" ->
                 IF ix # 0 /\ o # "null" /\ o # files[ix].content
                 THEN <<ModifiedFile(files[ix].path, o, "modified")>>
                 ELSE <<>>
            [] OTHER -> <<>>
    IN here \o ApplyModifications(Tail(plan), files, Tail(outs))

RECURSIVE SaveModified(_, _)
\* variant: the stored files are replaced by the modified ones
SaveModifiedReplacesAll(files, modified) ==
  [k \in 1..Len(modified) |-> File(modified[k].path, modified[k].content)]

\* the update loop of the handler over modifiedFiles
SaveModified(files, modified) ==
  IF modified = <<>> THEN files
  ELSE
    LET m == Head(modified)
        ix == FirstIndex({k \in 1..Len(files) :
                           files[k].path = m.path \/ EndsWith(files[k].path, Basename(m.path))})
        files2 == IF ix # 0 THEN [files EXCEPT ![ix].content = m.content]
                  ELSE IF m.action = "created" THEN Append(files, File(m.path, m.content))
                  ELSE files
    IN SaveModified(files2, Tail(modified))

\* the handler up to the plan: analyzeModificationRequest, and the early
\* return when the plan holds nothing
ModifyAnalyze ==
  /\ workload = "modify"
  /\ project.pc = "idle"
  /\ \E plan \in ServicePlans :
       project' = [project EXCEPT !.plan = plan,
                                  !.pc = IF Len(plan) = 0 THEN "done" ELSE "planned"]
  /\ UNCHANGED <<workload, poolSize, currentKeyIndex, graphVars, uiVars>>

\* applyModifications, the update loop and project.save()
ModifyApply ==
  /\ project.pc = "planned"
  /\ \E outs \in [1..Len(project.plan) -> Generated] :
       LET modified == ApplyModifications(project.plan, project.files, outs) IN
       project' = [project EXCEPT !.modifiedFiles = modified,
                                  !.files = SaveModified(project.files, modified),
                                  !.pc = "done"]
  /\ UNCHANGED <<workload, poolSize, currentKeyIndex, graphVars, uiVars>>

(* --------------------------- PATCH files ------------------------------ *)
\* path.startsWith('/')
StartsWithSlash(p) == p.slashes >= 1
\* '/' + path
PrependSlash(p) == [p EXCEPT !.slashes = @ + 1]
\* const normalizedPath = path.startsWith('/') ? path : '/' + path
NormalizedPath(p) == IF StartsWithSlash(p) THEN p ELSE PrependSlash(p)

\* variant: the stored path is compared as it is, without '/' + f.path
PatchMatchesAsStored(f, path) == f.path = NormalizedPath(path) \/ f.path = path

\* the test of project.files.findIndex for one update
PatchMatches(f, path) ==
  \/ f.path = NormalizedPath(path)
  \/ f.path = path
  \/ PrependSlash(f.path) = NormalizedPath(path)

RECURSIVE PatchedFiles(_, _)
\* the loop over updatedFiles
PatchedFiles(files, updatedFiles) ==
  IF updatedFiles = <<>> THEN files
  ELSE
    LET update == Head(updatedFiles)
        fileIndex == FirstIndex({k \in 1..Len(files) : PatchMatches(files[k], update.path)})
        files2 == IF fileIndex # 0 THEN [files EXCEPT ![fileIndex].content = update.content]
                  ELSE Append(files, File(NormalizedPath(update.path), update.content))
    IN PatchedFiles(files2, Tail(updatedFiles))

\* one PATCH request on the stored project, through project.save()
PatchFiles ==
  /\ workload = "patch"
  /\ \E updatedFiles \in PatchBodies :
       project' = [project EXCEPT !.files = PatchedFiles(project.files, updatedFiles),
                                  !.updates = updatedFiles,
                                  !.pc = "patched"]
  /\ UNCHANGED <<workload, poolSize, currentKeyIndex, graphVars, uiVars>>

(* --------------------------- specification ---------------------------- *)
\* a step of invocation i inside the graph
GraphStep(i) ==
  \/ IntentRouterEnter(i)
  \/ IntentRouterAttempt(i)
  \/ BlueprintPlanning(i)
  \/ ExtractPagesAttempt(i)
  \/ ModificationAnalyzerAttempt(i)
  \/ ChatResponse(i)
  \/ GeneratingStage(i)
  \/ ValidationStep(i)
  \/ RepairStep(i)

Next ==
  \/ \E i \in Invocations : GenerateWebsite(i)
  \/ \E i \in Invocations : InvokeGraph(i)
  \/ \E i \in Invocations : GenerateWebsiteReturn(i)
  \/ \E i \in Invocations : GenerateWebsiteThrow(i)
  \/ \E i \in Invocations : Release(i)
  \/ \E i \in Invocations : GraphStep(i)
  \/ \E c \in Callers : SelectComponents(c)
  \/ \E c \in Callers : SelectComponentsAttempt(c)
  \/ ModifyAnalyze
  \/ ModifyApply
  \/ PatchFiles

Spec == Init /\ [][Next]_vars


\* every stage invocation eventually returns or throws
FairSpec == Init /\ [][Next]_vars /\ \A i \in Invocations : WF_vars(GraphStep(i))

(* ------------------------------ properties ---------------------------- *)
Count(seq, x) == Cardinality({k \in 1..Len(seq) : seq[k] = x})
Last(seq) == seq[Len(seq)]
InGraph(r) == r.pc \notin {"idle", "released", "END", "failed", "returned", "threw"}
\* the step is one of invocation i: its record changes in more than the
\* response its callbacks write to
Moved(i) == [run'[i] EXCEPT !.events = run[i].events] # run[i]
\* the step is validation_step returning (not throwing) in invocation i
ValidationReturned(i) ==
  /\ run[i].pc = "validation_step"
  /\ run'[i].trace = Append(run[i].trace, "validation_step")
  /\ run'[i].pc # "failed"

\* C1: a run that starts with iterationCount = 0 never has iterationCount
\* above 3 and never executes repair_step more than 3 times; validation_step
\* never hands over to repair_step with iterationCount >= 3.
C1_RepairBound ==
  \A i \in Invocations :
    LET r == run[i] IN
    /\ (r.pc # "idle" /\ r.iter0 = 0) =>
         /\ r.st.iterationCount <= 3
         /\ Count(r.trace, "repair_step") <= 3
    /\ (r.pc = "repair_step" /\ r.trace # <<>> /\ Last(r.trace) = "validation_step") =>
         r.st.iterationCount < 3

\* modify branch, started at 0, three repairs, errors left, graph ended
C1_Witness ==
  \E i \in Invocations :
    LET r == run[i] IN
    /\ r.pc = "END" /\ r.iter0 = 0 /\ r.routed = "modify"
    /\ Count(r.trace, "repair_step") = 3
    /\ r.st.iterationCount = 3
    /\ r.st.errors # <<>>

\* C2: every run that entered the graph reaches END or aborts
C2_Terminates ==
  \A i \in Invocations : InGraph(run[i]) ~> (run[i].pc \in {"END", "failed"})

\* create branch ended although each of its four validation passes reported errors
C2_Witness ==
  \E i \in Invocations :
    LET r == run[i] IN
    /\ r.pc = "END" /\ r.routed = "create"
    /\ Count(r.trace, "validation_step") = 4
    /\ r.st.errors # <<>>

\* C3: when validation_step returns an empty errors list the graph is at END
\* right after that step, whatever iterationCount is
C3_CleanPassEnds ==
  [][ \A i \in Invocations :
        (ValidationReturned(i) /\ run'[i].lastErrs = <<>>) => run'[i].pc = "END" ]_vars

\* a clean pass ended the graph with iterationCount above 3
C3_Witness ==
  \E i \in Invocations :
    LET r == run[i] IN
    /\ r.pc = "END" /\ r.trace # <<>> /\ Last(r.trace) = "validation_step"
    /\ r.lastErrs = <<>> /\ r.st.errors = <<>>
    /\ r.st.iterationCount > 3

\* C4: a validation pass with errors at iterationCount >= 3 ends the graph,
\* and generateWebsite then returns (does not throw) exactly those errors
C4_DegradedSuccess ==
  [][ \A i \in Invocations :
        /\ (ValidationReturned(i) /\ run'[i].lastErrs # <<>> /\ run'[i].st.iterationCount >= 3)
             => run'[i].pc = "END"
        /\ ( /\ run[i].entry = "generateWebsite" /\ run[i].pc = "END"
             /\ run[i].lastErrs # <<>> /\ run[i].st.iterationCount >= 3
             /\ Moved(i) )
             => /\ run'[i].pc = "returned"
                /\ Len(run'[i].ret) = 1
                /\ run'[i].ret[1].errors = run[i].lastErrs ]_vars

\* generateWebsite returned with errors left after three repairs
C4_Witness ==
  \E i \in Invocations :
    LET r == run[i] IN
    /\ r.pc = "returned" /\ r.entry = "generateWebsite"
    /\ r.st.iterationCount = 3
    /\ r.ret[1].errors # <<>>
    /\ r.ret[1].errors = r.lastErrs

WorkflowFields == DOMAIN IdleRun.st

\* C5: once routing returned question or explain, only chat_response runs,
\* then END; files stay what they were on entry to routing and the
\* chat_response step changes chatResponse and messages only
C5_ChatBranchFrame ==
  /\ [](\A i \in Invocations :
          LET r == run[i] IN
          r.routed \in {"question", "explain"} =>
            /\ r.st.files = r.files0
            /\ \/ r.trace = <<"intent_router">> /\ r.pc = "chat_response"
               \/ r.trace = <<"intent_router", "chat_response">> /\ r.pc = "END")
  /\ [][ \A i \in Invocations :
           run[i].pc = "chat_response" /\ Moved(i) =>
             \A f \in WorkflowFields \ {"chatResponse", "messages"} :
               run'[i].st[f] = run[i].st[f] ]_vars

\* explain branch ended on an existing project whose files are untouched
C5_Witness ==
  \E i \in Invocations :
    LET r == run[i] IN
    /\ r.pc = "END" /\ r.routed = "explain"
    /\ r.trace = <<"intent_router", "chat_response">>
    /\ r.files0 # <<>> /\ r.st.files = r.files0
    /\ r.st.chatResponse # "none"

CreationStages == {"blueprint_step", "structure_step", "core_step", "components_step", "pages_step"}
ModifyOrder == <<"intent_router", "modification_analyzer", "repair_step", "validation_step">>

CreateOrder == <<"intent_router", "blueprint_step", "structure_step", "core_step",
                 "components_step", "pages_step", "validation_step">>
IntentValues == Intents \cup {"unset", "something else"}

\* C7: once routing returned anything but question, explain, modify the
\* creation stages run in the order blueprint, structure, core, components,
\* pages, once each, before the first validation; the edge sends every such
\* requestIntent (unset and unknown values too) to blueprint_step
C7_CreatePipelineOrder ==
  /\ \A v \in IntentValues \ {"question", "explain", "modify"} :
       IntentEdge([requestIntent |-> v]) = "blueprint_step"
  /\ \A i \in Invocations :
       LET r == run[i] IN
       (r.routed \notin {"none", "question", "explain", "modify"}) =>
         /\ \A k \in 1..Len(r.trace) :
              /\ k <= 7 => r.trace[k] = CreateOrder[k]
              /\ k > 7 => r.trace[k] \in {"validation_step", "repair_step"}
         /\ (InGraph(r) /\ Len(r.trace) < 7) => r.pc = CreateOrder[Len(r.trace) + 1]
         /\ \A n \in CreationStages : Count(r.trace, n) <= 1

\* a create run went through the pipeline, a repair and a second validation
C7_Witness ==
  \E i \in Invocations :
    LET r == run[i] IN
    /\ r.routed = "create" /\ r.pc = "END"
    /\ Len(r.trace) = 9
    /\ \A n \in CreationStages : Count(r.trace, n) = 1

\* C8: a run starts at intent_router, which executes once, and requestIntent
\* keeps the value routing returned
C8_RouterOnceIntentKept ==
  \A i \in Invocations :
    LET r == run[i] IN
    /\ (r.pc \notin {"idle", "released"} /\ r.trace = <<>>) => r.pc = "intent_router"
    /\ r.trace # <<>> => r.trace[1] = "intent_router" /\ Count(r.trace, "intent_router") = 1
    /\ (r.routed # "none" /\ r.pc \notin {"failed", "threw"}) => r.st.requestIntent = r.routed
    /\ r.routed = "none" => r.st.requestIntent = "unset"

\* a modify run reached END through three later stages with the routed intent
C8_Witness ==
  \E i \in Invocations :
    LET r == run[i] IN
    /\ r.pc = "END" /\ r.routed = "modify" /\ r.st.requestIntent = "modify"
    /\ Len(r.trace) = 4
    /\ r.iter0 >= 3

\* C9: routing on a state with no files and no blueprint returns create in
\* one step, with no classification attempt and no credential rotation
C9_NoProjectMeansCreate ==
  [][ \A i \in Invocations :
        ( /\ run[i].pc = "intent_router" /\ run[i].attempt = 0
          /\ run[i].st.files = <<>> /\ run[i].st.blueprint = NullBlueprint
          /\ Moved(i) )
        => /\ run'[i].st.requestIntent = "create"
           /\ run'[i].routed = "create"
           /\ run'[i].trace = <<"intent_router">>
           /\ run'[i].calls = 0
           /\ run'[i].rotations = 0
           /\ currentKeyIndex' = currentKeyIndex ]_vars

\* create was returned for a prompt holding a modify and a question keyword
C9_Witness ==
  \E i \in Invocations :
    LET r == run[i] IN
    /\ r.routed = "create" /\ r.outcome = "skipped" /\ r.calls = 0
    /\ r.trace = <<"intent_router">>
    /\ r.st.files = <<>> /\ r.st.blueprint = NullBlueprint
    /\ HasModifyKeywords(r.st.userPrompt) /\ HasQuestionKeywords(r.st.userPrompt)

\* C10: a retrying operation never makes a fourth attempt and has made
\* exactly 3 when it takes its exhaustion path (a response without a JSON
\* array is a failed attempt of the page-set extraction)
C10_ExactlyThreeAttempts ==
  /\ \A i \in Invocations :
       /\ run[i].calls <= 3
       /\ run[i].outcome = "exhausted" => run[i].calls = 3
  /\ \A c \in Callers :
       /\ ui[c].calls <= 3
       /\ ui[c].outcome = "exhausted" => ui[c].calls = 3

\* page-set extraction exhausted with at least one response without JSON
C10_Witness ==
  \E i \in Invocations :
    LET r == run[i] IN
    /\ r.outcome = "exhausted" /\ r.calls = 3 /\ r.rotations < 3
    /\ r.trace # <<>> /\ Last(r.trace) = "blueprint_step"
    /\ r.pc = "structure_step"
    /\ r.st.blueprint = Blueprint(FallbackPages)

AllTransient(fails) == \A k \in 1..Len(fails) : fails[k].class = "transient"
ModuleOf(node) ==
  CASE node = "intent_router" -> "IntentRouter"
    [] node = "blueprint_step" -> "Blueprint"
    [] node = "modification_analyzer" -> "ModificationAnalyzer"

\* no other call of selectComponents has started
RanAlone(c) == \A d \in Callers \ {c} : ui[d].pc = "idle"

\* C11: an operation running alone whose first N-1 attempts failed with a
\* transient error and whose Nth attempt succeeded (N <= 3) made N attempts
\* and no more, returned what the Nth attempt answered, rotated N-1 times, and
\* left the credential index at (start + N - 1) mod poolSize (at start for an
\* empty pool)
C11_SuccessAfterTransients ==
  /\ \A i \in Invocations :
       LET r == run[i]
           N == Len(r.fails) + 1
       IN (r.outcome = "ok" /\ AllTransient(r.fails)) =>
            /\ N \in 1..3 /\ r.calls = N /\ r.attempt = 0
            /\ r.rotations = N - 1
            /\ Last(r.trace) \in RetryingNodes
            /\ r.pc # Last(r.trace)
            /\ poolSize >= 1 =>
                 currentKeyIndex[ModuleOf(Last(r.trace))] = (r.idx0 + N - 1) % poolSize
            /\ poolSize = 0 => currentKeyIndex[ModuleOf(Last(r.trace))] = r.idx0
            /\ (Last(r.trace) = "intent_router" /\ r.got \in Intents) => r.routed = r.got
            /\ (Last(r.trace) = "blueprint_step" /\ r.pc # "failed" /\ r.pc # "threw")
                  => /\ Len(r.st.blueprint.pages) = Len(r.got)
                     /\ \A k \in 1..Len(r.got) : r.st.blueprint.pages[k].route = r.got[k].route
            /\ Last(r.trace) = "modification_analyzer" => r.st.modificationPlan = r.got
  /\ \A c \in Callers :
       LET u == ui[c]
           N == Len(u.fails) + 1
       IN (u.outcome = "ok" /\ AllTransient(u.fails) /\ RanAlone(c)) =>
            /\ N \in 1..3 /\ u.calls = N /\ u.pc = "done"
            /\ u.rotations = N - 1
            /\ poolSize >= 1 => currentKeyIndex["UIService"] = (u.idx0 + N - 1) % poolSize
            /\ poolSize = 0 => currentKeyIndex["UIService"] = u.idx0
            /\ u.result \in Selections

\* intent classification succeeded at the third attempt after two transient
\* failures, on a pool of several credentials whose index did not start at 0
C11_Witness ==
  \E i \in Invocations :
    LET r == run[i] IN
    /\ r.outcome = "ok" /\ Len(r.fails) = 2 /\ AllTransient(r.fails)
    /\ r.trace = <<"intent_router">>
    /\ poolSize >= 2 /\ r.idx0 # 0
    /\ r.routed = "question"

\* the step rotates the credential of module m
Rotating(m) ==
  IF m = "UIService"
  THEN \E c \in Callers : ui'[c].rotations = ui[c].rotations + 1
  ELSE \E i \in Invocations :
         LET attempt == IF run[i].attempt = 0 THEN 1 ELSE run[i].attempt IN
         /\ run[i].pc \in RetryingNodes /\ ModuleOf(run[i].pc) = m
         /\ Len(run'[i].fails) = attempt
         /\ run'[i].fails[attempt].rotated

\* C12: a rotation moves the index from i to (i + 1) mod poolSize, to 0 from
\* the last credential; the index is always within 0..poolSize-1, and stays
\* 0 when the pool holds 0 or 1 credentials; nothing else moves it
C12_RotationWraps ==
  /\ [](\A m \in Modules :
          /\ currentKeyIndex[m] >= 0
          /\ poolSize >= 1 => currentKeyIndex[m] <= poolSize - 1
          /\ poolSize <= 1 => currentKeyIndex[m] = 0)
  /\ [][ \A m \in Modules :
           /\ Rotating(m) =>
                /\ poolSize > 1 =>
                     currentKeyIndex'[m] =
                       IF currentKeyIndex[m] = poolSize - 1 THEN 0 ELSE currentKeyIndex[m] + 1
                /\ poolSize <= 1 => currentKeyIndex'[m] = 0
           /\ ~Rotating(m) => currentKeyIndex'[m] = currentKeyIndex[m] ]_vars

\* a rotation of UIService took the index from the last credential to the first
C12_Witness ==
  \E c \in Callers :
    /\ poolSize >= 2
    /\ ui[c].rotations = 1 /\ ui[c].idx0 = poolSize - 1
    /\ currentKeyIndex["UIService"] = 0

\* the k-th failed attempt of an operation was followed by another attempt
Reattempted(k) == k < maxRetries

\* C13: within one retrying operation the delay waited before a reattempt is
\* strictly greater than the delay waited before the previous reattempt,
\* whatever the failure classes and whichever the operation
C13_DelaysIncrease ==
  /\ \A i \in Invocations :
       \A k \in 2..Len(run[i].fails) :
         Reattempted(k) => run[i].fails[k].wait > run[i].fails[k - 1].wait
  /\ \A c \in Callers :
       \A k \in 2..Len(ui[c].fails) :
         Reattempted(k) => ui[c].fails[k].wait > ui[c].fails[k - 1].wait

\* C14: every failed attempt that is not the last allowed one is followed by
\* a credential rotation and another attempt, whatever the failure class; an
\* operation takes its exhaustion path only after 3 failed attempts
C14_EveryFailureRotatesAndRetries ==
  /\ \A i \in Invocations :
       LET r == run[i] IN
       /\ \A k \in 1..Len(r.fails) :
            Reattempted(k) => /\ r.fails[k].rotated
                              /\ r.calls > k \/ r.attempt = k + 1
       /\ r.outcome = "exhausted" => Len(r.fails) = maxRetries
  /\ \A c \in Callers :
       LET u == ui[c] IN
       /\ \A k \in 1..Len(u.fails) :
            Reattempted(k) => /\ u.fails[k].rotated
                              /\ u.calls > k \/ u.attempt = k + 1
       /\ u.outcome = "exhausted" => Len(u.fails) = maxRetries

\* C15: when all 3 classification attempts failed the routing stage returns
\* (the run goes on) an intent that depends on the files and the prompt only:
\* create for an empty files map, else question when the prompt holds a
\* question keyword, else modify
C15_RouterKeywordFallback ==
  \A i \in Invocations :
    LET r == run[i] IN
    (r.outcome = "exhausted" /\ r.trace = <<"intent_router">>) =>
      /\ Len(r.fails) = 3
      /\ r.routed = IF r.files0 = <<>> THEN "create"
                    ELSE IF \E kw \in QUESTION_KEYWORDS : kw \in Range(ToLowerCase(r.st.userPrompt))
                         THEN "question"
                         ELSE "modify"
      /\ r.st.requestIntent = r.routed
      /\ r.st.isModification = (r.routed = "modify")
      /\ r.pc = CASE r.routed = "create" -> "blueprint_step"
                  [] r.routed = "question" -> "chat_response"
                  [] r.routed = "modify" -> "modification_analyzer"

\* three failed attempts on a project with files; the prompt holds a question
\* and a modify keyword and the run goes on to chat_response
C15_Witness ==
  \E i \in Invocations :
    LET r == run[i] IN
    /\ r.outcome = "exhausted" /\ r.trace = <<"intent_router">>
    /\ r.files0 # <<>>
    /\ HasModifyKeywords(r.st.userPrompt) /\ HasQuestionKeywords(r.st.userPrompt)
    /\ r.routed = "question" /\ r.pc = "chat_response"

TwoPageSet == << [name |-> "HomePage", route |-> "/"], [name |-> "NotFoundPage", route |-> "*"] >>

\* C16: when all 3 page-set extraction attempts failed (errors or responses
\* without a JSON array) extractPagesWithLLM returns HomePage '/' and
\* NotFoundPage '*', and a blueprint stage that returns holds those pages
C16_PagesFallback ==
  \A i \in Invocations :
    LET r == run[i] IN
    (r.outcome = "exhausted" /\ r.trace # <<>> /\ Last(r.trace) = "blueprint_step") =>
      /\ Len(r.fails) = 3
      /\ r.got = TwoPageSet
      /\ r.pc \in {"structure_step", "failed", "threw"}
      /\ r.pc = "structure_step" => r.st.blueprint = [isNull |-> FALSE, pages |-> TwoPageSet]

\* three responses without a JSON array, no rotation, the stage returned
C16_Witness ==
  \E i \in Invocations :
    LET r == run[i] IN
    /\ r.outcome = "exhausted" /\ r.trace = <<"intent_router", "blueprint_step">>
    /\ \A k \in 1..Len(r.fails) : r.fails[k].class = "nojson"
    /\ r.rotations = 0
    /\ r.pc = "structure_step"
    /\ Len(r.st.blueprint.pages) = 2

\* C17: when all attempts of the modification analysis failed the stage
\* returns a fallback plan and the graph is at repair_step; the plan lists
\* creates before modifies, creates under src/pages/, modifies among App.tsx
\* and the paths of the files map, nothing when the prompt holds no "add",
\* and filesToCreate / filesToModify are its two parts
C17_AnalyzerFallback ==
  \A i \in Invocations :
    LET r == run[i]
        plan == r.st.modificationPlan
    IN
    (r.outcome = "exhausted" /\ r.trace # <<>> /\ Last(r.trace) = "modification_analyzer") =>
      /\ Len(r.fails) = 3
      /\ r.pc = "repair_step"
      /\ plan.summary = "Fallback modification plan"
      /\ plan.changes =
           [k \in 1..Len(r.st.filesToCreate) |-> [file |-> r.st.filesToCreate[k], action |-> "create"]]
           \o [k \in 1..Len(r.st.filesToModify) |-> [file |-> r.st.filesToModify[k], action |-> "modify"]]
      /\ \A k \in 1..Len(r.st.filesToCreate) :
           r.st.filesToCreate[k] \in {"src/pages/GalleryPage.tsx", "src/pages/OtherPage.tsx"}
      /\ \A k \in 1..Len(r.st.filesToModify) :
           r.st.filesToModify[k] \in {"src/App.tsx"} \cup PathsOf(r.st.files)
      /\ "add" \notin Range(ToLowerCase(r.st.userPrompt)) => plan.changes = <<>>
      /\ r.st.files = r.files0

\* the fallback plan of a prompt without "add" holds no change; repair is next
C17_Witness ==
  \E i \in Invocations :
    LET r == run[i] IN
    /\ r.outcome = "exhausted"
    /\ r.trace = <<"intent_router", "modification_analyzer">>
    /\ r.pc = "repair_step"
    /\ r.st.modificationPlan.summary = "Fallback modification plan"
    /\ r.st.modificationPlan.changes = <<>>

\* C18: a stage that throws (the blueprint stage when planning fails) aborts
\* the run with its error: no stage executes afterwards, and generateWebsite
\* rejects with that error and resolves with no value
C18_StageFailureRejects ==
  /\ [](\A i \in Invocations :
          LET r == run[i] IN
          /\ r.pc \in {"failed", "threw"} <=> r.err # "none"
          /\ r.pc \in {"failed", "threw"} => r.ret = <<>>
          /\ r.pc = "threw" => r.entry = "generateWebsite")
  /\ [][ \A i \in Invocations :
           /\ ( /\ run[i].pc = "blueprint_step" /\ run[i].attempt = 0
                /\ run'[i].pc # "blueprint_step" )
                => /\ run'[i].pc = "failed"
                   /\ run'[i].err \in {"Planning failed", "planning service down"}
                   /\ run'[i].trace = Append(run[i].trace, "blueprint_step")
           /\ (run[i].pc = "failed" /\ Moved(i)) =>
                \/ /\ run[i].entry = "generateWebsite"
                   /\ run'[i].pc = "threw"
                   /\ run'[i].err = run[i].err
                   /\ run'[i].trace = run[i].trace
                \/ /\ run[i].entry = "invoke"
                   /\ run'[i].pc = "idle"
           /\ (run[i].pc = "threw" /\ Moved(i)) => run'[i].pc \in {"idle", "released"} ]_vars

\* generateWebsite rejected with the planning error; blueprint was the last stage
C18_Witness ==
  \E i \in Invocations :
    LET r == run[i] IN
    /\ r.pc = "threw" /\ r.entry = "generateWebsite"
    /\ r.err = "Planning failed"
    /\ r.trace = <<"intent_router", "blueprint_step">>
    /\ r.calls = 0 /\ r.ret = <<>>

\* generateWebsite invocation i has started and not ended
InProgress(i) ==
  /\ run[i].entry = "generateWebsite"
  /\ run[i].pc \notin {"idle", "released", "returned", "threw"}

\* the step ends generateWebsite invocation i (it returns or throws)
Ends(i) ==
  /\ run[i].pc \notin {"returned", "threw"}
  /\ run'[i].pc \in {"returned", "threw"}

\* invocation i was in flight together with another one
Overlapped(i) == run[i].over # {} \/ \E j \in Invocations : i \in run[j].over

\* C19: when a generateWebsite invocation ends, by return or by throw, both
\* callbacks are null; with invocations that do not overlap a stage of an
\* invocation calls no callback but the ones that invocation supplied
C19_CallbacksCleared ==
  /\ [][ \A i \in Invocations :
           Ends(i) => globalFileCallback' = "null" /\ globalPhaseCallback' = "null" ]_vars
  /\ []( (\A i \in Invocations : ~InProgress(i))
           => globalFileCallback = "null" /\ globalPhaseCallback = "null" )
  /\ [](\A i \in Invocations :
          \A k \in 1..Len(run[i].notified) :
            /\ ~Overlapped(i) => run[i].notified[k].owner = i
            /\ run[i].notified[k].cb = "file" => run[i].args.onFile
            /\ run[i].notified[k].cb = "phase" => run[i].args.onPhase)

\* A supplied both callbacks and has ended; a stage of B, which supplied the
\* phase callback only, produced a file and called B's phase callback alone
C19_Witness ==
  /\ run["A"].pc = "released"
  /\ run["A"].args = [onFile |-> TRUE, onPhase |-> TRUE]
  /\ run["B"].args = [onFile |-> FALSE, onPhase |-> TRUE]
  /\ run["B"].pc = "core_step"
  /\ run["B"].st.files # <<>>
  /\ run["B"].notified = <<[cb |-> "phase", owner |-> "B", arg |-> "structure"]>>

PhaseNames == {"blueprint", "structure", "core", "components", "pages", "validation", "repair"}
CallsOf(notified, cb) == {k \in 1..Len(notified) : notified[k].cb = cb}

\* the step is the execution of a stage by invocation i
StageRan(i) == run'[i].trace # run[i].trace /\ run'[i].trace # <<>>

\* C20: a notification whose callback is unset calls nothing; registration
\* sets each callback from its own argument only; a file notification calls
\* the file callback alone and a phase notification the phase callback alone
C20_CallbacksIndependent ==
  [][ \A i \in Invocations :
        /\ (run[i].pc = "idle" /\ run'[i].entry = "generateWebsite" /\ run'[i].pc # "idle") =>
             /\ globalFileCallback' = (IF run'[i].args.onFile THEN i ELSE "null")
             /\ globalPhaseCallback' = (IF run'[i].args.onPhase THEN i ELSE "null")
        /\ StageRan(i) =>
             LET n == run'[i].notified IN
             /\ globalFileCallback' = globalFileCallback
             /\ globalPhaseCallback' = globalPhaseCallback
             /\ globalFileCallback = "null" => CallsOf(n, "file") = {}
             /\ globalPhaseCallback = "null" => CallsOf(n, "phase") = {}
             /\ \A k \in CallsOf(n, "file") :
                  n[k].owner = globalFileCallback /\ n[k].arg \in Range(run'[i].issued)
             /\ \A k \in CallsOf(n, "phase") :
                  n[k].owner = globalPhaseCallback /\ n[k].arg \in PhaseNames
             /\ CallsOf(n, "file") \cup CallsOf(n, "phase") = 1..Len(n) ]_vars

\* only the file callback is registered: a stage delivered its file and
\* called no phase callback
C20_Witness ==
  \E i \in Invocations :
    /\ globalFileCallback = i /\ globalPhaseCallback = "null"
    /\ Len(run[i].notified) = 1
    /\ run[i].notified[1].cb = "file"
    /\ run[i].notified[1].arg \in Range(run[i].st.files)

IsFileCall(c) == c.cb = "file"
\* the calls of the file callback among the callback calls, in order
FileCalls(notified) == SelectSeq(notified, IsFileCall)

\* C21: while a file callback is registered, the file notifications a stage
\* issues call it once each, in the order issued and within the step that
\* issues them; a notification for a path notified before is delivered as well
C21_FileCallsFollowNotifications ==
  [][ \A i \in Invocations :
        (StageRan(i) /\ globalFileCallback # "null") =>
          LET calls == FileCalls(run'[i].notified)
              issued == run'[i].issued
          IN /\ Len(calls) = Len(issued)
             /\ \A k \in 1..Len(issued) :
                  /\ calls[k].arg = issued[k]
                  /\ calls[k].owner = globalFileCallback ]_vars

\* a stage wrote App.tsx twice and a page in between while App.tsx was in
\* the files map already: three calls of the file callback, in that order
C21_Witness ==
  \E i \in Invocations :
    LET r == run[i]
        calls == FileCalls(r.notified)
    IN /\ r.pc = "components_step"
       /\ Len(r.issued) = 3
       /\ r.issued[1].path = r.issued[3].path /\ r.issued[1] # r.issued[3]
       /\ Len(calls) = 3
       /\ \A k \in 1..3 : calls[k].arg = r.issued[k]
       /\ Len(r.trace) = 4

\* the step is the registration of generateWebsite invocation j
Registers(j) ==
  run[j].pc = "idle" /\ run'[j].entry = "generateWebsite" /\ run'[j].pc # "idle"

\* C22: a generateWebsite call made while another invocation is in progress
\* replaces that invocation's callbacks by its own; while both are in
\* progress a stage of the earlier invocation calls the later one's
\* callbacks for its phase and files, and never its own
C22_LaterRegistrationReplaces ==
  [][ \A i \in Invocations : \A j \in Invocations \ {i} :
        /\ (Registers(j) /\ Running(run[i])) =>
             /\ globalFileCallback' = (IF run'[j].args.onFile THEN j ELSE "null")
             /\ globalPhaseCallback' = (IF run'[j].args.onPhase THEN j ELSE "null")
        /\ (StageRan(i) /\ i \in run[j].over /\ Running(run[j])) =>
             LET n == run'[i].notified IN
             /\ \A k \in 1..Len(n) : n[k].owner # i
             /\ run[j].args.onFile =>
                  /\ Len(FileCalls(n)) = Len(run'[i].issued)
                  /\ \A k \in 1..Len(FileCalls(n)) : FileCalls(n)[k].owner = j ]_vars

\* A supplied both callbacks and is in progress; B was called meanwhile and
\* is in progress too; the file and the phase of a stage of A went to B
C22_Witness ==
  /\ "A" \in run["B"].over
  /\ Running(run["A"]) /\ Running(run["B"])
  /\ run["A"].args = [onFile |-> TRUE, onPhase |-> TRUE]
  /\ run["A"].issued # <<>>
  /\ Len(run["A"].notified) = 2
  /\ \A k \in 1..2 : run["A"].notified[k].owner = "B"
  /\ run["A"].notified[1].cb = "phase" /\ run["A"].notified[2].cb = "file"

\* generateWebsite invocation j has ended
Ended(j) == run[j].pc \in {"returned", "threw", "released"}

\* C23: once one of two overlapping generateWebsite invocations has ended,
\* both callbacks are null, and a stage of the invocation still in progress
\* calls no callback for the phase and the files it produces, although that
\* invocation supplied both callbacks
C23_CleanupSilencesTheOther ==
  /\ [](\A i \in Invocations : \A j \in Invocations \ {i} :
          (Running(run[i]) /\ Ended(j) /\ Overlapped(i)) =>
            globalFileCallback = "null" /\ globalPhaseCallback = "null")
  /\ [][ \A i \in Invocations : \A j \in Invocations \ {i} :
           (StageRan(i) /\ Ended(j) /\ Overlapped(i)) => run'[i].notified = <<>> ]_vars

\* B was called while A was in progress and has returned; the next stage of
\* A produced a file and called no callback, with both callbacks supplied
C23_Witness ==
  /\ "A" \in run["B"].over
  /\ run["B"].pc = "returned"
  /\ Running(run["A"])
  /\ run["A"].args = [onFile |-> TRUE, onPhase |-> TRUE]
  /\ run["A"].issued # <<>>
  /\ run["A"].notified = <<>>

\* the step is a failed attempt of a retrying call on the index of module m
AttemptFailed(m) ==
  IF m = "UIService"
  THEN \E c \in Callers : Len(ui'[c].fails) = Len(ui[c].fails) + 1
  ELSE \E i \in Invocations :
         LET attempt == IF run[i].attempt = 0 THEN 1 ELSE run[i].attempt IN
         /\ run[i].pc \in RetryingNodes /\ ModuleOf(run[i].pc) = m
         /\ Len(run'[i].fails) = attempt

\* C24: with retrying calls interleaved on one credential index the index
\* stays within the pool, every failed attempt advances it by one modulo the
\* pool size (so k failed attempts advance it by k), and every call makes at
\* most 3 attempts and ends in success or in its exhaustion path
C24_SharedIndexCountsFailures ==
  /\ [](\A m \in Modules :
          /\ currentKeyIndex[m] >= 0
          /\ poolSize >= 1 => currentKeyIndex[m] < poolSize)
  /\ [](\A c \in Callers :
          /\ ui[c].calls <= 3
          /\ ui[c].pc = "done" => ui[c].outcome \in {"ok", "exhausted", "cached"}
          /\ ui[c].outcome = "exhausted" => ui[c].calls = 3)
  /\ [](\A i \in Invocations :
          /\ run[i].calls <= 3
          /\ run[i].outcome = "exhausted" => run[i].calls = 3)
  /\ [][ \A m \in Modules :
           (AttemptFailed(m) /\ poolSize >= 1) =>
             currentKeyIndex'[m] = (currentKeyIndex[m] + 1) % poolSize ]_vars

\* a partial result that holds no field
EmptyUpdate == [f \in {} |-> <<>>]

\* C25: merging a partial result that holds no field into the state of a run
\* gives a state equal to it, field by field
C25_EmptyMergeIsIdentity ==
  \A i \in Invocations :
    LET s == run[i].st
        m == Merge(s, EmptyUpdate)
    IN /\ DOMAIN m = DOMAIN s
       /\ \A f \in DOMAIN s : m[f] = s[f]
       /\ m = s

\* a state after a repair, with files, errors and messages, is its own merge
\* with the empty partial result
C25_Witness ==
  \E i \in Invocations :
    LET s == run[i].st IN
    /\ run[i].pc = "repair_step"
    /\ s.files # <<>> /\ s.errors # <<>> /\ s.messages # <<>>
    /\ s.iterationCount > 0 /\ s.blueprint # NullBlueprint
    /\ Merge(s, EmptyUpdate) = s

\* the files the stage executed in this step wrote, in order (a stage issues
\* one file notification for each file it writes)
Written(i) == run'[i].issued
\* the last content written to path p by the update upd
LastWrite(upd, p) ==
  upd[CHOOSE k \in 1..Len(upd) :
        upd[k].path = p /\ \A k2 \in 1..Len(upd) : upd[k2].path = p => k2 <= k]

\* C26: the files map never holds two entries of one path; a stage update of
\* a path already present replaces the content of its entry, where it is, and
\* an update of a new path adds one entry
C26_OneEntryPerPath ==
  /\ [](\A i \in Invocations :
          Cardinality(PathsOf(run[i].st.files)) = Len(run[i].st.files))
  /\ [][ \A i \in Invocations :
           (StageRan(i) /\ run'[i].pc # "failed") =>
             LET old == run[i].st.files
                 new == run'[i].st.files
                 upd == Written(i)
             IN /\ PathsOf(new) = PathsOf(old) \cup PathsOf(upd)
                /\ Len(new) = Len(old) + Cardinality(PathsOf(upd) \ PathsOf(old))
                /\ \A k \in 1..Len(old) :
                     /\ new[k].path = old[k].path
                     /\ new[k] = IF old[k].path \in PathsOf(upd)
                                 THEN LastWrite(upd, old[k].path) ELSE old[k]
                /\ \A k \in (Len(old) + 1)..Len(new) :
                     new[k] = LastWrite(upd, new[k].path) ]_vars

\* a stage rewrote App.tsx, which was in the map, and added a page: two
\* entries, App.tsx still the first, with the content written last
C26_Witness ==
  \E i \in Invocations :
    LET r == run[i] IN
    /\ Len(r.trace) >= 4
    /\ r.issued = RewritingUpdate
    /\ Len(r.st.files) = 2
    /\ r.st.files[1] = [path |-> "src/App.tsx", content |-> "v2"]
    /\ r.st.files[2].path = "src/pages/GalleryPage.tsx"

\* C27: after a validation pass the errors list is the list that pass
\* reported, nothing of an earlier pass is left in it, no other stage changes
\* it, and the edge after validation decides from that list
C27_ErrorsOfLatestPass ==
  /\ [](\A i \in Invocations :
          (run[i].pc \notin {"failed", "threw"}) => run[i].st.errors = run[i].lastErrs)
  /\ [][ \A i \in Invocations :
           ValidationReturned(i) =>
             /\ run'[i].st.errors = run'[i].lastErrs
             /\ run'[i].pc = IF run'[i].lastErrs = <<>> THEN "END"
                             ELSE IF run'[i].st.iterationCount >= 3 THEN "END"
                             ELSE "repair_step" ]_vars

\* the first pass of a create run reported an error, the repair ran, and the
\* second pass reported none: the errors list is empty and the run at END
C27_Witness ==
  \E i \in Invocations :
    LET r == run[i] IN
    /\ r.routed = "create" /\ r.pc = "END"
    /\ Count(r.trace, "validation_step") = 2
    /\ Count(r.trace, "repair_step") = 1
    /\ r.lastErrs = <<>> /\ r.st.errors = <<>>

\* the step is repair_step returning (not throwing) in invocation i
RepairReturned(i) ==
  /\ run[i].pc = "repair_step"
  /\ run'[i].trace = Append(run[i].trace, "repair_step")
  /\ run'[i].pc # "failed"

\* C28: in a generateWebsite invocation iterationCount is 0 at the start and
\* equals the number of repair executions completed; a repair execution adds
\* exactly 1 and no other step of the invocation changes it
C28_IterationCountCountsRepairs ==
  /\ [](\A i \in Invocations :
          (Running(run[i]) /\ run[i].pc # "failed") =>
            run[i].st.iterationCount = Count(run[i].trace, "repair_step"))
  /\ [][ \A i \in Invocations :
           /\ (Registers(i)) => run'[i].st.iterationCount = 0
           /\ (Running(run[i]) /\ run'[i].pc \notin {"failed", "released"}) =>
                run'[i].st.iterationCount =
                  IF RepairReturned(i) THEN run[i].st.iterationCount + 1
                  ELSE run[i].st.iterationCount ]_vars

\* a generateWebsite invocation reached END after three repair executions
C28_Witness ==
  \E i \in Invocations :
    LET r == run[i] IN
    /\ r.entry = "generateWebsite" /\ r.pc = "END"
    /\ Count(r.trace, "repair_step") = 3
    /\ r.st.iterationCount = 3

\* paths the step removes from the files of invocation i
RemovedFromRun(i) == PathsOf(run[i].st.files) \ PathsOf(run'[i].st.files)
\* paths the step removes from the stored project
RemovedFromProject == PathsOf(project.files) \ PathsOf(project'.files)

C30_RepairThenValidation ==
  /\ [](\A i \in Invocations :
          LET r == run[i] IN
          /\ \A k \in 1..(Len(r.trace) - 1) :
               r.trace[k] = "repair_step" => r.trace[k + 1] = "validation_step"
          /\ (r.trace # <<>> /\ Last(r.trace) = "repair_step") =>
               r.pc \in {"validation_step", "failed", "threw"})
  /\ [][ \A i \in Invocations :
           RepairReturned(i) => run'[i].pc = "validation_step" ]_vars

\* a create run repaired once, validated again and is about to repair again
C30_Witness ==
  \E i \in Invocations :
    LET r == run[i] IN
    /\ r.routed = "create" /\ r.pc = "repair_step"
    /\ Len(r.trace) = 9
    /\ r.trace[8] = "repair_step" /\ r.trace[9] = "validation_step"
    /\ r.st.iterationCount = 1 /\ r.st.errors # <<>>

\* stored paths are pairwise different after leading-slash normalization
PairwiseDifferent(files) ==
  \A j, k \in 1..Len(files) :
    NormalizedPath(files[j].path) = NormalizedPath(files[k].path) => j = k
\* the step is a PATCH request
Patched == project'.pc = "patched" /\ project' # project
\* updates of the request whose path is the stored path p up to a leading slash
UpdatesOf(upd, p) == {k \in 1..Len(upd) : NormalizedPath(upd[k].path) = NormalizedPath(p)}

\* C31: a PATCH request on a project whose stored paths are pairwise
\* different after leading-slash normalization leaves them pairwise different;
\* no stored path changes; a stored entry that updates of the request name
\* up to a leading slash holds the content of one of the request's updates,
\* the last such update when the request names no other path; every added
\* entry starts with a slash and is the normalized path of an update that
\* named no stored entry; and a path the request names adds at most one entry.
C31_PatchKeepsPathsDistinct ==
  [][ (Patched /\ PairwiseDifferent(project.files)) =>
        LET old == project.files
            new == project'.files
            upd == project'.updates IN
        /\ PairwiseDifferent(new)
        /\ Len(new) >= Len(old)
        /\ \A j \in 1..Len(old) :
             /\ new[j].path = old[j].path
             /\ UpdatesOf(upd, old[j].path) = {} /\ (\A k \in 1..Len(upd) : upd[k].path.rest # old[j].path.rest)
                  => new[j].content = old[j].content
             /\ UpdatesOf(upd, old[j].path) # {}
                  => /\ \E k \in 1..Len(upd) : new[j].content = upd[k].content
                     /\ UpdatesOf(upd, old[j].path) = 1..Len(upd)
                          => new[j].content = upd[Len(upd)].content
        /\ \A j \in (Len(old) + 1)..Len(new) :
             /\ StartsWithSlash(new[j].path)
             /\ \E k \in 1..Len(upd) :
                  /\ new[j].path = NormalizedPath(upd[k].path)
                  /\ new[j].content \in {upd[k2].content : k2 \in k..Len(upd)}
                  /\ \A i \in 1..Len(old) :
                       NormalizedPath(old[i].path) # NormalizedPath(upd[k].path)
        /\ \A k \in 1..Len(upd) :
             Cardinality({j \in (Len(old) + 1)..Len(new) :
                            new[j].path = NormalizedPath(upd[k].path)}) <= 1
    ]_vars

\* one request named a file stored without a leading slash by its slashed
\* path, twice: the stored entry holds the second content and nothing was added
C31_Witness ==
  /\ project.pc = "patched"
  /\ PairwiseDifferent(project.files)
  /\ Len(project.updates) = 2
  /\ project.updates[1].path = project.updates[2].path
  /\ project.updates[1].content # project.updates[2].content
  /\ \E j \in 1..Len(project.files) :
       /\ ~StartsWithSlash(project.files[j].path)
       /\ PrependSlash(project.files[j].path) = project.updates[1].path
       /\ project.files[j].content = project.updates[2].content
  /\ Len(project.files) = Len(project.files0)

\* C32: a run started by generateWebsite enters the routing stage with no
\* files and a null blueprint, the routing stage returns create in one step
\* with no classification attempt and no rotation, and the run never executes
\* chat_response or modification_analyzer, whatever the prompt holds.
C32_GenerateWebsiteCreates ==
  /\ [](\A i \in Invocations :
          run[i].entry = "generateWebsite" =>
            /\ run[i].pc \notin {"chat_response", "modification_analyzer"}
            /\ "chat_response" \notin Range(run[i].trace)
            /\ "modification_analyzer" \notin Range(run[i].trace)
            /\ run[i].pc = "intent_router" =>
                 /\ run[i].attempt = 0
                 /\ run[i].st.files = <<>>
                 /\ run[i].st.blueprint = NullBlueprint
            /\ run[i].trace # <<>> =>
                 /\ run[i].trace[1] = "intent_router"
                 /\ run[i].routed = "create"
            /\ run[i].trace \notin {<<>>, <<"intent_router">>} =>
                 run[i].trace[2] = "blueprint_step")
  /\ [][ \A i \in Invocations :
           (run[i].entry = "generateWebsite" /\ run[i].pc = "intent_router"
              /\ Moved(i))
           => /\ run'[i].trace = <<"intent_router">>
              /\ run'[i].st.requestIntent = "create"
              /\ run'[i].calls = 0
              /\ run'[i].rotations = 0
              /\ run'[i].pc = "blueprint_step"
              /\ currentKeyIndex' = currentKeyIndex ]_vars

\* generateWebsite returned for a prompt that holds a modify and a question
\* keyword: the run went through the creation stages
C32_Witness ==
  \E i \in Invocations :
    LET r == run[i] IN
    /\ r.entry = "generateWebsite" /\ r.pc = "returned"
    /\ HasModifyKeywords(r.st.userPrompt) /\ HasQuestionKeywords(r.st.userPrompt)
    /\ r.routed = "create"
    /\ "pages_step" \in Range(r.trace)

\* the calls of the file callback supplied by request j among the calls
FileCallsTo(notified, j) ==
  LET Mine(c) == c.cb = "file" /\ c.owner = j IN SelectSeq(notified, Mine)
\* the position of the first call for path p among the calls
FirstFor(calls, p) ==
  CHOOSE k \in 1..Len(calls) :
    calls[k].arg.path = p /\ \A m \in 1..(k - 1) : calls[m].arg.path # p

\* C33: the response of a streaming request never holds two 'file' events for
\* one path; a stage's calls of the request's file callback add, for each
\* path not sent before, one 'file' event with the content of the first call
\* for that path, and nothing for a path sent before or named again
C33_OneFileEventPerPath ==
  /\ [](\A j \in Invocations :
          LET sent == run[j].events.file IN
          /\ \A a, b \in 1..Len(sent) : sent[a].path = sent[b].path => a = b
          /\ ~Streaming(run[j].args) => sent = <<>>)
  /\ [][ \A i, j \in Invocations :
           (StageRan(i) /\ Streaming(run[j].args)) =>
             LET calls == FileCallsTo(run'[i].notified, j)
                 old == run[j].events.file
                 new == run'[j].events.file
                 before == {old[k].path : k \in 1..Len(old)}
                 fresh == {calls[k].arg.path : k \in 1..Len(calls)} \ before
             IN /\ Len(new) = Len(old) + Cardinality(fresh)
                /\ SubSeq(new, 1, Len(old)) = old
                /\ \A n \in (Len(old) + 1)..Len(new) :
                     /\ new[n].path \in fresh
                     /\ new[n].content = calls[FirstFor(calls, new[n].path)].arg.content ]_vars

\* a streaming request returned: App.tsx was streamed once, with the content
\* of its first notification, and the files map holds the rewritten content
C33_Witness ==
  \E i \in Invocations :
    LET r == run[i] IN
    /\ r.entry = "generateWebsite" /\ r.pc = "returned" /\ Streaming(r.args)
    /\ \E n \in 1..Len(r.events.file) : \E k \in 1..Len(r.st.files) :
         /\ r.events.file[n].path = r.st.files[k].path
         /\ r.events.file[n].content # r.st.files[k].content
    /\ Cardinality({r.events.file[n].path : n \in 1..Len(r.events.file)}) = Len(r.events.file)
    /\ Len(r.events.file) >= 2

\* the response of request j has its terminal event
Closed(j) == run[j].events.terminal # <<>>
\* the step is the continuation of the endpoint after generateWebsite settled
Continues(j) == run[j].pc \in {"returned", "threw"} /\ run'[j].pc = "released"

\* C34: the response of a streaming request holds no terminal event while
\* generateWebsite is pending and exactly one once the request is finished,
\* 'complete' after a return and 'error' after a throw; the terminal event is
\* the last event of the response: afterwards no callback of the request is
\* called and nothing is written, also with overlapping requests
C34_OneTerminalEvent ==
  /\ [](\A j \in Invocations :
          /\ Len(run[j].events.terminal) <= 1
          /\ Closed(j) => run[j].events.last \in {"complete", "error"}
          /\ Closed(j) <=> (run[j].pc = "released" /\ Streaming(run[j].args)))
  /\ [][ \A j \in Invocations :
           /\ (Continues(j) /\ Streaming(run[j].args)) =>
                /\ run[j].pc = "returned" => run'[j].events.terminal = <<"complete">>
                /\ run[j].pc = "threw" => run'[j].events.terminal = <<"error">>
                /\ run'[j].events.file = run[j].events.file
           /\ Closed(j) =>
                /\ run'[j].events = run[j].events
                /\ \A i \in Invocations :
                     StageRan(i) =>
                       \A k \in 1..Len(run'[i].notified) : run'[i].notified[k].owner # j ]_vars

\* two overlapping streaming requests are finished, one after a throw and one
\* after a return: each response ends with its own terminal event
C34_Witness ==
  /\ \A j \in Invocations : run[j].pc = "released" /\ Streaming(run[j].args)
  /\ Overlapped("A")
  /\ run["A"].events.terminal = <<"error">>
  /\ run["B"].events.terminal = <<"complete">>
  /\ run["B"].events.file # <<>>

\* the step is a classification attempt of invocation i that succeeded
Classified(i) ==
  /\ run[i].pc = "intent_router" /\ run[i].attempt >= 1
  /\ run'[i].outcome = "ok" /\ run'[i].trace = Append(run[i].trace, "intent_router")

\* C35: a classification attempt that succeeded for an existing project
\* returns the answer when the answer (in lower case, trimmed) is one of
\* create, modify, question, explain, and for any other answer, an empty one
\* included, question when the prompt has a question keyword and modify
\* otherwise
C35_AnswerValidation ==
  [][ \A i \in Invocations :
        Classified(i) =>
          LET answer == LowerTrim(run'[i].got)
              intent == run'[i].st.requestIntent IN
          /\ intent = run'[i].routed
          /\ intent \in Intents
          /\ answer \in Intents => intent = answer
          /\ answer \notin Intents =>
               intent = (IF HasQuestionKeywords(run[i].st.userPrompt)
                         THEN "question" ELSE "modify") ]_vars

\* the step is chat_response executed by invocation i
ChatRan(i) == run[i].pc = "chat_response" /\ Moved(i)

\* C36: chat_response always returns: whatever the memory lookup and the
\* generation call do, the run goes to END with a chatResponse and one
\* message holding it, after one generation call, with no rotation; when the
\* generation call throws the chatResponse is the fallback text
C36_ChatResponseReturns ==
  /\ [](\A i \in Invocations :
          (run[i].trace # <<>> /\ Last(run[i].trace) = "chat_response") =>
            /\ run[i].pc \in {"END", "idle", "released", "returned"}
            /\ run[i].err = "none")
  /\ [][ \A i \in Invocations :
           ChatRan(i) =>
             /\ run'[i].pc = "END"
             /\ run'[i].trace = Append(run[i].trace, "chat_response")
             /\ run'[i].st.chatResponse # "none"
             /\ run'[i].st.messages = Append(run[i].st.messages, run'[i].st.chatResponse)
             /\ run'[i].calls = 1
             /\ run'[i].rotations = 0
             /\ currentKeyIndex' = currentKeyIndex
             /\ run'[i].got = "throws" =>
                  run'[i].st.chatResponse = FallbackResponse(run[i].st) ]_vars

\* the memory lookup threw and the generation call threw: the run is at END
\* with the fallback text as its only message
C36_Witness ==
  \E i \in Invocations :
    LET r == run[i] IN
    /\ r.pc = "END" /\ Last(r.trace) = "chat_response"
    /\ r.mem = "throws" /\ r.got = "throws"
    /\ r.st.chatResponse = FallbackResponse(r.st)
    /\ r.st.messages = <<r.st.chatResponse>>
    /\ r.calls = 1

\* the step is a call of selectComponents by c, up to its first await
Called(c) == ui[c].pc \in {"idle", "done"} /\ ui'[c] # ui[c]

\* C37: the selection cache holds successful results only, under trimmed
\* keys, and is written by a successful attempt only; once a call succeeded
\* for a key the cache holds that call's result, and a later call with the
\* key returns what the cache holds with no attempt and no rotation; an
\* exhausted call returns the empty selection and leaves the cache alone, and
\* a call whose key is not cached starts attempting
C37_CacheHoldsSuccesses ==
  /\ [](/\ \A k \in DOMAIN selectionCache :
             selectionCache[k] \in Selections /\ Trim(k) = k
        /\ \A c \in Callers :
             /\ ui[c].outcome = "ok" =>
                  /\ ui[c].cacheKey \in DOMAIN selectionCache
                  /\ selectionCache[ui[c].cacheKey] = ui[c].result
             /\ ui[c].outcome = "exhausted" => ui[c].result = EmptySelection)
  /\ [][ \A c \in Callers :
           /\ Called(c) =>
                /\ selectionCache' = selectionCache
                /\ currentKeyIndex' = currentKeyIndex
                /\ ui'[c].calls = 0 /\ ui'[c].rotations = 0
                /\ IF ui'[c].cacheKey \in DOMAIN selectionCache
                   THEN /\ ui'[c].pc = "done"
                        /\ ui'[c].result = selectionCache[ui'[c].cacheKey]
                   ELSE ui'[c].pc = "attempting"
           /\ (ui[c].pc = "attempting" /\ ui'[c].outcome = "exhausted") =>
                selectionCache' = selectionCache
           /\ selectionCache' # selectionCache =>
                \E d \in Callers : ui[d].pc = "attempting" /\ ui'[d].outcome = "ok" ]_vars

\* the files of the changes with the given action, in the order of the plan
FilesWith(changes, action) ==
  LET pos == {k \in 1..Len(changes) : changes[k].action = action}
      Nth(m) == CHOOSE k \in pos : Cardinality({j \in pos : j < k}) = m - 1
  IN [m \in 1..Cardinality(pos) |-> changes[Nth(m)].file]
\* the step is modification_analyzer returning in invocation i
AnalyzerReturned(i) ==
  /\ run[i].pc = "modification_analyzer"
  /\ run'[i].trace = Append(run[i].trace, "modification_analyzer")

\* C38: when modification_analyzer returns, with the model's plan or with
\* the fallback plan, filesToCreate holds the files of the plan's create
\* changes and filesToModify those of its modify changes, in plan order; the
\* file of a delete change is in neither list unless another change puts it
\* there; the files map is what it was
C38_PlanSplit ==
  [][ \A i \in Invocations :
        AnalyzerReturned(i) =>
          LET s == run'[i].st
              changes == s.modificationPlan.changes IN
          /\ run'[i].pc = "repair_step"
          /\ s.filesToCreate = FilesWith(changes, "create")
          /\ s.filesToModify = FilesWith(changes, "modify")
          /\ \A k \in 1..Len(changes) :
               (changes[k].action = "delete"
                  /\ \A j \in 1..Len(changes) :
                       changes[j].file = changes[k].file => changes[j].action = "delete")
               => changes[k].file \notin Range(s.filesToCreate) \cup Range(s.filesToModify)
          /\ s.files = run[i].st.files ]_vars

\* the model's plan with a create, a modify and a delete was split
C38_Witness ==
  \E i \in Invocations :
    LET s == run[i].st IN
    /\ run[i].pc = "repair_step" /\ Last(run[i].trace) = "modification_analyzer"
    /\ run[i].outcome = "ok"
    /\ \E k \in 1..Len(s.modificationPlan.changes) :
         s.modificationPlan.changes[k].action = "delete"
    /\ s.filesToCreate = <<PagePath>>
    /\ s.filesToModify = <<AppPath>>

\* the step writes the results of applyModifications into the stored project
ResultsSaved == project.pc = "planned" /\ project'.pc = "done"

\* C39: when the results of applyModifications are written into the stored
\* project, a stored file keeps its path, its content changes only to the
\* content of a result with the same path, and every result with action
\* 'created' whose path is not stored is an entry of its own afterwards
C39_ResultsHitTheirOwnPath ==
  [][ ResultsSaved =>
        LET old == project.files
            new == project'.files
            res == project'.modifiedFiles IN
        /\ Len(new) >= Len(old)
        /\ \A k \in 1..Len(old) :
             /\ new[k].path = old[k].path
             /\ new[k].content # old[k].content =>
                  \E m \in 1..Len(res) :
                    res[m].path = old[k].path /\ res[m].content = new[k].content
        /\ \A m \in 1..Len(res) :
             (res[m].action = "created" /\ res[m].path \notin PathsOf(old)) =>
               \E k \in (Len(old) + 1)..Len(new) : new[k].path = res[m].path ]_vars

\* the step is an attempt of caller c that follows a failed attempt of c
Retries(c) ==
  /\ ui[c].pc = "attempting" /\ ui[c].fails # <<>>
  /\ ui'[c].calls = ui[c].calls + 1
\* the step is a failed attempt of the routing stage, with another to follow
RouterRetries(i) ==
  /\ run[i].pc = "intent_router" /\ run'[i].pc = "intent_router"
  /\ run'[i].attempt = run[i].attempt + 1 /\ run[i].attempt >= 1

\* C40: on a pool of more than one credential the attempt that follows a
\* failed attempt uses another credential than the failed one: the routing
\* stage leaves a failed attempt with the index moved, and an attempt of
\* selectComponents that follows a failed one reads another index than the
\* failed one read, also with two calls in flight
C40_NextAttemptOtherCredential ==
  [][ poolSize > 1 =>
        /\ \A i \in Invocations :
             RouterRetries(i) =>
               currentKeyIndex'["IntentRouter"] # currentKeyIndex["IntentRouter"]
        /\ \A c \in Callers :
             Retries(c) => ui'[c].cred # ui[c].cred ]_vars


====
